---- MODULE Spec2Model ----
(***************************************************************************)
(* A model of the SQLite-backed document store of kivik (x/sqlite): the    *)
(* revision table, the body table and the attachment table of a database,  *)
(* and the handlers Put, Delete, Get, AllDocs and Changes that read and    *)
(* write them inside SQL transactions.                                     *)
(***************************************************************************)
EXTENDS Integers, Sequences, FiniteSets, TLC

VARIABLES
    revs,   \* revs[d]: the rows of table "<d>_revs"
    docs,   \* docs[d]: the rows of table "<d>"
    atts,   \* atts[d]: the rows of table "<d>_attachments"
    res,    \* the last call: its inputs, its status and what it returned
    feed,   \* the cursor of a changes feed: its rows, its position, its fields
    rtx,    \* the transaction of a Get in progress: what it has read so far
    schema, \* the tables and the indexes of the client's SQLite database
    wtx     \* wtx[w]: the transaction of the write that caller w has in progress

vars == <<revs, docs, atts, res, feed, rtx, schema, wtx>>

----------------------------------------------------------------------------
(* Bounds and input domains *)

\* The most body rows a database holds; a write that would exceed it is not issued.
MaxRows == 3

\* The largest rev number the model's rev strings can carry.
MaxRevNo == MaxRows + 2

\* The databases of the client, and the one the handlers of Spec are called on.
DBNames == {"test", "db2"}

SpecDBs == {"test"}

\* Document ids callers use; one of them is a local document.
DocIDs == {"foo", "_local/dog"}

\* The bodies of Put: their user fields, as the value of the one field "foo",
\* and their _deleted flag. The content "" is the body with no user field
\* ({"_deleted":true} of Delete).
Bodies == {[content |-> "bar", deleted |-> FALSE],
           [content |-> "bar", deleted |-> TRUE]}

PlainBody == [content |-> "bar", deleted |-> FALSE]

\* The revision a replication source hands over in _rev.
ExternalRevs == {"1-aaa"}

\* The _attachments a body carries: none, or the file foo.txt as an entry with
\* base64 data, as a stub, or as an entry with neither.
AttachmentInputs ==
    {{}} \cup {{[filename |-> "foo.txt", kind |-> k]} : k \in {"data", "stub", "none"}}

\* The absent _revisions field.
NoRevisions == [start |-> 0, ids |-> <<>>]

\* _revisions values callers send: absent, or the chain 2-xxx, 1-def.
RevisionsInputs == {NoRevisions, [start |-> 2, ids |-> <<"xxx", "def">>]}

\* A _revisions value whose leaf is the revision an interactive Put of
\* PlainBody gives a document of one revision, over an ancestor 1-def.
WrongHistory == [start |-> 2, ids |-> <<"9bb5", "def">>]

\* Where the storage engine may fail during a write: nowhere, at the insert
\* into the body table (after the insert into the revision table), at COMMIT.
Faults == {"none", "docs", "commit"}

\* The ids of the documents the view queries are made on.
ViewIDs == {"cat", "cow", "dog"}

\* startkey and endkey values of AllDocs; "" is the absent key.
ViewKeys == {""} \cup ViewIDs

\* The options of AllDocs when the caller gives none.
NoViewOpts == [descending |-> FALSE, startkey |-> "", endkey |-> "",
               inclusive_end |-> TRUE, skip |-> 0, has_limit |-> FALSE, limit |-> 0]

\* The options callers give AllDocs: a direction and a key range, or a skip
\* and a limit.
AllDocsOptions ==
    {[NoViewOpts EXCEPT !.descending = ds, !.startkey = sk, !.endkey = ek,
                        !.inclusive_end = ie] :
        ds \in BOOLEAN, sk \in ViewKeys, ek \in ViewKeys, ie \in BOOLEAN}
    \cup {[NoViewOpts EXCEPT !.skip = sp, !.has_limit = TRUE, !.limit = lm] :
             sp \in 0..MaxRows, lm \in 0..MaxRows}
    \cup {[NoViewOpts EXCEPT !.skip = sp] : sp \in 0..MaxRows}

\* The metadata options of Get when the caller gives none.
NoGetOpts == [conflicts |-> FALSE, deleted_conflicts |-> FALSE,
              revs_info |-> FALSE, meta |-> FALSE]

\* The metadata options callers give Get: none, one of them, or meta.
GetOptions ==
    {NoGetOpts, [NoGetOpts EXCEPT !.conflicts = TRUE],
     [NoGetOpts EXCEPT !.deleted_conflicts = TRUE],
     [NoGetOpts EXCEPT !.revs_info = TRUE], [NoGetOpts EXCEPT !.meta = TRUE]}

\* SQL NULL in the two parent columns.
NULL_REV == 0

NULL_ID == ""

----------------------------------------------------------------------------
(* Revision codec *)

\* Every rev_id of the model in the order of SQLite's text comparison
\* (ORDER BY rev_id compares bytes: digits sort before letters).
RevIDOrder == <<"4b98", "6872", "9991", "9bb5", "aaa", "de1e", "def", "xxx">>

\* Every document id of the model in the order of SQLite's text comparison.
IDOrder == <<"_local/dog", "cat", "cow", "dog", "foo">>

IDRank(id) == CHOOSE i \in 1..Len(IDOrder) : IDOrder[i] = id

RevIDs == {RevIDOrder[i] : i \in 1..Len(RevIDOrder)}

RevIDRank(id) == CHOOSE i \in 1..Len(RevIDOrder) : RevIDOrder[i] = id

\* revision.String(): "<rev>-<rev_id>", and "" for the zero revision.
RevString(rev, id) == IF rev = 0 THEN "" ELSE ToString(rev) \o "-" \o id

\* The revisions a rev string of the model can denote.
RevDomain == {[rev |-> n, id |-> i] : n \in 1..MaxRevNo, i \in RevIDs}

\* parseRev: the (rev, rev_id) that s is the string form of; ok is FALSE when
\* s is not "<positive integer>-<rev_id>".
parseRev(s) ==
    LET hits == {r \in RevDomain : RevString(r.rev, r.id) = s}
    IN  IF hits = {}
        THEN [ok |-> FALSE, rev |-> 0, id |-> ""]
        ELSE LET r == CHOOSE r \in hits : TRUE
             IN  [ok |-> TRUE, rev |-> r.rev, id |-> r.id]

\* The MD5 of the canonical body: of its user fields and, when it is true, of
\* _deleted. _id, _rev and _revisions are stripped before hashing.
MD5Body(content, deleted) ==
    CASE content = "bar" /\ ~deleted -> "9bb5"
      [] content = "bar" /\ deleted  -> "6872"
      [] content = "" /\ ~deleted    -> "9991"
      [] OTHER                       -> "de1e"

\* An extraction that prefers the body's _rev to the leaf of _revisions.
extractRevPreferringRev(doc) ==
    IF doc.rev # "" THEN doc.rev
    ELSE IF doc.revisions # NoRevisions
    THEN RevString(doc.revisions.start, Head(doc.revisions.ids))
    ELSE ""

\* extractRev: the rev the body carries: the leaf of _revisions when the body
\* has one, its _rev otherwise.
extractRev(doc) ==
    IF doc.revisions # NoRevisions
    THEN RevString(doc.revisions.start, Head(doc.revisions.ids))
    ELSE doc.rev

\* A prepareDoc that hashes the body as it is given, _rev included.
prepareDocHashingRev(docID, doc) ==
    IF doc.id # "" /\ doc.id # docID
    THEN [ok |-> FALSE, ID |-> docID, Rev |-> "", Doc |-> "", Deleted |-> FALSE]
    ELSE [ok |-> TRUE, ID |-> docID,
          Rev |-> IF doc.rev = "" THEN MD5Body(doc.content, doc.deleted) ELSE "de1e",
          Doc |-> doc.content, Deleted |-> doc.deleted]

\* prepareDoc: fails when the body's _id differs from the id of the call and
\* when an entry of _attachments has neither data nor the stub flag;
\* otherwise the id, the computed rev_id (the digests of the attachments are
\* hashed with the body), the stored bytes and the deleted flag.
prepareDoc(docID, doc) ==
    IF doc.id # "" /\ doc.id # docID
    THEN [ok |-> FALSE, ID |-> docID, Rev |-> "", Doc |-> "", Deleted |-> FALSE]
    ELSE IF \E a \in doc.attachments : a.kind = "none"
    THEN [ok |-> FALSE, ID |-> docID, Rev |-> "", Doc |-> "", Deleted |-> FALSE]
    ELSE [ok |-> TRUE, ID |-> docID,
          Rev |-> IF doc.attachments = {} THEN MD5Body(doc.content, doc.deleted)
                  ELSE "4b98",
          Doc |-> doc.content, Deleted |-> doc.deleted]

----------------------------------------------------------------------------
(* The tables and the SQL statements the handlers issue *)

RevRow(id, rev, rev_id, prev, prev_id) ==
    [id |-> id, rev |-> rev, rev_id |-> rev_id,
     parent_rev |-> prev, parent_rev_id |-> prev_id]

DocRow(seq, id, rev, rev_id, doc, deleted) ==
    [seq |-> seq, id |-> id, rev |-> rev, rev_id |-> rev_id,
     doc |-> doc, deleted |-> deleted]

\* Tables without the UNIQUE constraint: no insert ever finds its key.
HasKeyUnconstrained(rows, id, rev, rev_id) == FALSE

\* UNIQUE(id, rev, rev_id) of either table.
HasKey(rows, id, rev, rev_id) ==
    \E r \in rows : r.id = id /\ r.rev = rev /\ r.rev_id = rev_id

\* A seq column that hands out the largest rowid again.
NextSeqReused(rows) ==
    IF rows = {} THEN 1
    ELSE CHOOSE s \in {r.seq : r \in rows} : \A r \in rows : r.seq <= s

\* seq INTEGER PRIMARY KEY: SQLite gives a new row the largest rowid plus one.
NextSeq(rows) ==
    IF rows = {} THEN 1
    ELSE (CHOOSE s \in {r.seq : r \in rows} : \A r \in rows : r.seq <= s) + 1

\* ORDER BY rev DESC, rev_id DESC: a sorts before b.
RevBefore(a, b) ==
    \/ a.rev > b.rev
    \/ a.rev = b.rev /\ RevIDRank(a.rev_id) > RevIDRank(b.rev_id)

\* The same query with ORDER BY rev ASC, rev_id ASC.
TopDocAscending(rows, id) ==
    {r \in rows : r.id = id /\ \A o \in rows : (o.id = id /\ o # r) => RevBefore(o, r)}

\* SELECT ... FROM <d> WHERE id = $1 ORDER BY rev DESC, rev_id DESC LIMIT 1:
\* the set holding the first body row of id, empty when id has none.
TopDoc(rows, id) ==
    {r \in rows : r.id = id /\ \A o \in rows : (o.id = id /\ o # r) => RevBefore(r, o)}

\* COALESCE(MAX(rev),0) over the revision rows of id.
MaxRev(rows, id) ==
    LET rs == {r.rev : r \in {x \in rows : x.id = id}}
    IN  IF rs = {} THEN 0 ELSE CHOOSE m \in rs : \A n \in rs : n <= m

\* The committed tables of database d.
Tables(d) == [revs |-> revs[d], docs |-> docs[d], atts |-> atts[d]]

\* d.db.BeginTx: the transaction of a handler starts from the committed tables
\* and holds what the handler has written so far.
BeginTx(d) == Tables(d)

\* A handler without the deferred Rollback: what it wrote stays.
RollbackMissing(d, tx) == tx

\* defer tx.Rollback(): a handler that returns without a successful Commit
\* leaves the committed tables as they were when it began.
Rollback(d, tx) == BeginTx(d)

\* A commit that compacts: it drops the body row of every revision that has
\* a child.
CommitCompacting(d, tx) ==
    [tx EXCEPT !.docs =
        {b \in @ : ~\E n \in tx.revs :
            n.id = b.id /\ n.parent_rev = b.rev /\ n.parent_rev_id = b.rev_id}]

\* tx.Commit(): the transaction's tables become the committed ones.
Commit(d, tx) == tx

\* What a handler returns: its status ("ok" for a nil error), the rev string it
\* returns and the tables it leaves committed.
Outcome(status, out, tables) == [status |-> status, out |-> out, tables |-> tables]

----------------------------------------------------------------------------
(* db.Put *)

\* A new_edits=false branch that replaces the body row it finds (INSERT OR
\* REPLACE) instead of returning on the unique-constraint failure.
PutNewEditsFalseReplacing(d, docID, docRev, data, fault) ==
    LET tx0 == BeginTx(d)
        rev == parseRev(docRev)
        tx1 == [tx0 EXCEPT !.revs =
                   @ \cup {RevRow(docID, rev.rev, rev.id, NULL_REV, NULL_ID)}]
        kept == {x \in tx1.docs :
                    ~(x.id = docID /\ x.rev = rev.rev /\ x.rev_id = rev.id)}
        tx2 == [tx1 EXCEPT !.docs =
                   kept \cup {DocRow(NextSeq(tx1.docs), docID, rev.rev, rev.id,
                                     data.Doc, data.Deleted)}]
    IN  IF docRev = "" \/ ~rev.ok THEN Outcome("BadRequest", "", Rollback(d, tx0))
        ELSE IF fault # "none" THEN Outcome("Internal", "", Rollback(d, tx0))
        ELSE Outcome("ok", RevString(rev.rev, rev.id), Commit(d, tx2))

\* The new_edits=false branch: insert the revision node and ignore a
\* unique-constraint failure, then insert the body row; a unique-constraint
\* failure there returns the rev of the call without committing.
PutNewEditsFalse(d, docID, docRev, data, fault) ==
    LET tx0 == BeginTx(d)
        rev == parseRev(docRev)
        revDup == HasKey(tx0.revs, docID, rev.rev, rev.id)
        tx1 == IF revDup THEN tx0
               ELSE [tx0 EXCEPT !.revs =
                        @ \cup {RevRow(docID, rev.rev, rev.id, NULL_REV, NULL_ID)}]
        docDup == HasKey(tx1.docs, docID, rev.rev, rev.id)
        tx2 == [tx1 EXCEPT !.docs =
                   @ \cup {DocRow(NextSeq(tx1.docs), docID, rev.rev, rev.id,
                                  data.Doc, data.Deleted)}]
        newRev == RevString(rev.rev, rev.id)
    IN  IF docRev = "" THEN Outcome("BadRequest", "", Rollback(d, tx0))
        ELSE IF ~rev.ok THEN Outcome("BadRequest", "", Rollback(d, tx0))
        ELSE IF fault = "revs" THEN Outcome("Internal", "", Rollback(d, tx0))
        ELSE IF fault = "docs" THEN Outcome("Internal", "", Rollback(d, tx1))
        ELSE IF docDup THEN Outcome("ok", docRev, Rollback(d, tx1))
        ELSE IF fault = "commit" THEN Outcome("Internal", newRev, Rollback(d, tx2))
        ELSE Outcome("ok", newRev, Commit(d, tx2))

\* A new_edits=true branch without the comparison of the current rev with the
\* rev of the call.
PutNewEditsUnchecked(d, docID, docRev, data, fault) ==
    LET tx0 == BeginTx(d)
        top == TopDoc(tx0.docs, docID)
        curRevRev == IF top = {} THEN NULL_REV ELSE (CHOOSE t \in top : TRUE).rev
        curRevID == IF top = {} THEN NULL_ID ELSE (CHOOSE t \in top : TRUE).rev_id
        r == [rev |-> MaxRev(tx0.revs, data.ID) + 1, id |-> data.Rev]
        tx1 == [tx0 EXCEPT !.revs =
                   @ \cup {RevRow(data.ID, r.rev, r.id, curRevRev, curRevID)}]
        tx2 == [tx1 EXCEPT !.docs =
                   @ \cup {DocRow(NextSeq(tx1.docs), data.ID, r.rev, r.id,
                                  data.Doc, data.Deleted)}]
    IN  IF fault = "none" /\ ~HasKey(tx0.revs, data.ID, r.rev, r.id)
        THEN Outcome("ok", RevString(r.rev, r.id), Commit(d, tx2))
        ELSE Outcome("Internal", "", Rollback(d, tx0))

\* The new_edits=true branch: read the current rev of the document, fail with
\* a conflict unless it is the rev of the call, then insert a child of it.
PutNewEdits(d, docID, docRev, data, fault) ==
    LET tx0 == BeginTx(d)
        top == TopDoc(tx0.docs, docID)
        curRev == IF top = {} THEN [rev |-> 0, id |-> ""]
                  ELSE LET t == CHOOSE t \in top : TRUE
                       IN  [rev |-> t.rev, id |-> t.rev_id]
        curRevRev == IF curRev.rev # 0 THEN curRev.rev ELSE NULL_REV
        curRevID == IF curRev.rev # 0 THEN curRev.id ELSE NULL_ID
        r == [rev |-> MaxRev(tx0.revs, data.ID) + 1, id |-> data.Rev]
        revDup == HasKey(tx0.revs, data.ID, r.rev, r.id)
        tx1 == [tx0 EXCEPT !.revs =
                   @ \cup {RevRow(data.ID, r.rev, r.id, curRevRev, curRevID)}]
        docDup == HasKey(tx1.docs, data.ID, r.rev, r.id)
        tx2 == [tx1 EXCEPT !.docs =
                   @ \cup {DocRow(NextSeq(tx1.docs), data.ID, r.rev, r.id,
                                  data.Doc, data.Deleted)}]
    IN  IF RevString(curRev.rev, curRev.id) # docRev
        THEN Outcome("Conflict", "", Rollback(d, tx0))
        ELSE IF fault = "revs" \/ revDup THEN Outcome("Internal", "", Rollback(d, tx0))
        ELSE IF fault = "docs" \/ docDup THEN Outcome("Internal", "", Rollback(d, tx1))
        ELSE IF fault = "commit"
        THEN Outcome("Internal", RevString(r.rev, r.id), Rollback(d, tx2))
        ELSE Outcome("ok", RevString(r.rev, r.id), Commit(d, tx2))

\* A Put that takes the rev of the body only and does not read the rev option.
EffectiveRevOfBody(doc, opts) == extractRev(doc)

\* The rev the call acts on: the body's rev, or the option's when the body has none.
EffectiveRev(doc, opts) ==
    LET docRev == extractRev(doc)
    IN  IF docRev = "" /\ opts.rev # "" THEN opts.rev ELSE docRev

\* A Put without the comparison of the body's rev with the rev option: the
\* rev of the body is taken when both are given.
PutOutcomeUncheckedRevs(d, docID, doc, opts, fault) ==
    LET data == prepareDoc(docID, doc)
    IN  IF ~data.ok THEN Outcome("BadRequest", "", Tables(d))
        ELSE IF ~opts.new_edits
        THEN PutNewEditsFalse(d, docID, EffectiveRev(doc, opts), data, fault)
        ELSE PutNewEdits(d, docID, EffectiveRev(doc, opts), data, fault)

PutOutcome(d, docID, doc, opts, fault) ==
    LET docRev == extractRev(doc)
        optsRev == opts.rev
        data == prepareDoc(docID, doc)
    IN  IF optsRev # "" /\ docRev # "" /\ optsRev # docRev
        THEN Outcome("BadRequest", "", Tables(d))
        ELSE IF ~data.ok THEN Outcome("BadRequest", "", Tables(d))
        ELSE IF ~opts.new_edits
        THEN PutNewEditsFalse(d, docID, EffectiveRev(doc, opts), data, fault)
        ELSE PutNewEdits(d, docID, EffectiveRev(doc, opts), data, fault)

----------------------------------------------------------------------------
(* db.Delete *)

\* A body without the _deleted field: {}.
DeleteDocLive == [id |-> "", rev |-> "", revisions |-> NoRevisions,
                  deleted |-> FALSE, content |-> "", attachments |-> {}]

\* The body Delete writes: {"_deleted": true}.
DeleteDoc == [id |-> "", rev |-> "", revisions |-> NoRevisions,
              deleted |-> TRUE, content |-> "", attachments |-> {}]

\* Delete reads the current rev of the document, fails with NotFound when the
\* document has no body row and with a conflict unless the current rev is the
\* rev option, then inserts a deleted child of it.
DeleteOutcome(d, docID, opts, fault) ==
    LET docRev == opts.rev
        data == prepareDoc(docID, DeleteDoc)
        tx0 == BeginTx(d)
        top == TopDoc(tx0.docs, data.ID)
        curRev == IF top = {} THEN [rev |-> 0, id |-> ""]
                  ELSE LET t == CHOOSE t \in top : TRUE
                       IN  [rev |-> t.rev, id |-> t.rev_id]
        curRevRev == IF curRev.rev # 0 THEN curRev.rev ELSE NULL_REV
        curRevID == IF curRev.rev # 0 THEN curRev.id ELSE NULL_ID
        r == [rev |-> MaxRev(tx0.revs, data.ID) + 1, id |-> data.Rev]
        revDup == HasKey(tx0.revs, data.ID, r.rev, r.id)
        tx1 == [tx0 EXCEPT !.revs =
                   @ \cup {RevRow(data.ID, r.rev, r.id, curRevRev, curRevID)}]
        docDup == HasKey(tx1.docs, data.ID, r.rev, r.id)
        tx2 == [tx1 EXCEPT !.docs =
                   @ \cup {DocRow(NextSeq(tx1.docs), data.ID, r.rev, r.id,
                                  data.Doc, TRUE)}]
    IN  IF ~data.ok THEN Outcome("BadRequest", "", Tables(d))
        ELSE IF top = {} THEN Outcome("NotFound", "", Rollback(d, tx0))
        ELSE IF RevString(curRev.rev, curRev.id) # docRev
        THEN Outcome("Conflict", "", Rollback(d, tx0))
        ELSE IF fault = "revs" \/ revDup THEN Outcome("Internal", "", Rollback(d, tx0))
        ELSE IF fault = "docs" \/ docDup THEN Outcome("Internal", "", Rollback(d, tx1))
        ELSE IF fault = "commit"
        THEN Outcome("Internal", RevString(r.rev, r.id), Rollback(d, tx2))
        ELSE Outcome("ok", RevString(r.rev, r.id), Commit(d, tx2))

----------------------------------------------------------------------------
(* db.Get *)

\* db.conflicts: the rev strings of the revision nodes of id other than r that
\* no node has for parent and whose body row has the given deleted flag, as
\* the transaction tx reads them.
conflicts(tx, id, r, deleted) ==
    {RevString(n.rev, n.rev_id) :
        n \in {x \in tx.revs :
                 /\ x.id = id
                 /\ ~(x.rev = r.rev /\ x.rev_id = r.id)
                 /\ ~\E child \in tx.revs :
                       /\ x.id = child.id /\ x.rev = child.parent_rev
                       /\ x.rev_id = child.parent_rev_id
                 /\ \E b \in tx.docs :
                       /\ b.id = x.id /\ b.rev = x.rev /\ b.rev_id = x.rev_id
                       /\ b.deleted = deleted}}

\* The recursive step of the CTE Ancestors: the parents of the nodes found.
RECURSIVE Ancestors(_, _)
Ancestors(tx, found) ==
    LET step == {r \in tx.revs : \E a \in found :
                    /\ a.parent_rev_id = r.rev_id /\ a.parent_rev = r.rev
                    /\ a.id = r.id}
    IN  IF step \subseteq found THEN found ELSE Ancestors(tx, found \cup step)

\* The recursive step of the CTE Descendants: the children of the nodes found.
RECURSIVE Descendants(_, _)
Descendants(tx, found) ==
    LET step == {r \in tx.revs : \E x \in found :
                    /\ x.rev_id = r.parent_rev_id /\ x.rev = r.parent_rev
                    /\ x.id = r.id}
    IN  IF step \subseteq found THEN found ELSE Descendants(tx, found \cup step)

\* 'missing' for a node without a body row, 'deleted' for one whose body row
\* is deleted, 'available' otherwise (the LEFT JOIN and the CASE).
RevStatus(tx, n) ==
    LET doc == {b \in tx.docs :
                   b.id = n.id /\ b.rev = n.rev /\ b.rev_id = n.rev_id}
    IN  IF doc = {} THEN "missing"
        ELSE IF (CHOOSE b \in doc : TRUE).deleted THEN "deleted"
        ELSE "available"

\* A revs_info query that lists every node of the document.
RevsInfoWholeDocument(tx, id, r) ==
    LET nodes == {n \in tx.revs : n.id = id}
    IN  [i \in 1..Cardinality(nodes) |->
            LET n == CHOOSE n \in nodes :
                        Cardinality({o \in nodes : RevBefore(o, n)}) = i - 1
            IN  [rev |-> RevString(n.rev, n.rev_id), status |-> RevStatus(tx, n)]]

\* The revs_info query: the node of r, its ancestors and its descendants,
\* each once (UNION), ORDER BY rev DESC, rev_id DESC, with their status.
RevsInfo(tx, id, r) ==
    LET base == {n \in tx.revs : n.id = id /\ n.rev = r.rev /\ n.rev_id = r.id}
        nodes == Ancestors(tx, base) \cup Descendants(tx, base)
    IN  [i \in 1..Cardinality(nodes) |->
            LET n == CHOOSE n \in nodes :
                        Cardinality({o \in nodes : RevBefore(o, n)}) = i - 1
            IN  [rev |-> RevString(n.rev, n.rev_id), status |-> RevStatus(tx, n)]]

\* What Get returns when it fails.
GetError(status) ==
    [status |-> status, rev |-> "", body |-> "", conflicts |-> {},
     deleted_conflicts |-> {}, revs_info |-> <<>>]

\* What Get merges into the body of revision r and returns.
GetDocument(tx, id, r, body, opts) ==
    [status |-> "ok", rev |-> RevString(r.rev, r.id), body |-> body,
     conflicts |-> IF opts.conflicts \/ opts.meta
                   THEN conflicts(tx, id, r, FALSE) ELSE {},
     deleted_conflicts |-> IF opts.deleted_conflicts \/ opts.meta
                           THEN conflicts(tx, id, r, TRUE) ELSE {},
     revs_info |-> IF opts.revs_info \/ opts.meta
                   THEN RevsInfo(tx, id, r) ELSE <<>>]

\* A Get that reads the deleted column in its query by rev too.
GetOutcomeHidingTombstones(d, id, opts) ==
    LET tx == BeginTx(d)
        r == parseRev(opts.rev)
        byRev == {x \in tx.docs : x.id = id /\ x.rev = r.rev /\ x.rev_id = r.id}
        top == IF opts.rev # "" THEN byRev ELSE TopDoc(tx.docs, id)
    IN  IF opts.rev # "" /\ ~r.ok THEN GetError("BadRequest")
        ELSE IF top = {} THEN GetError("NotFound")
        ELSE LET t == CHOOSE t \in top : TRUE
             IN  IF t.deleted THEN GetError("NotFound")
                 ELSE GetDocument(tx, id, [rev |-> t.rev, id |-> t.rev_id], t.doc, opts)

\* The first query of Get. With a rev option it loads the body of exactly
\* that revision (the query does not read the deleted column); without one it
\* loads the first body row by (rev DESC, rev_id DESC) and reports NotFound
\* when that row is deleted.
GetSelect(tx, id, opts) ==
    LET r == parseRev(opts.rev)
        byRev == {x \in tx.docs : x.id = id /\ x.rev = r.rev /\ x.rev_id = r.id}
        top == TopDoc(tx.docs, id)
        none == [status |-> "NotFound", r |-> [rev |-> 0, id |-> ""], body |-> ""]
    IN  IF opts.rev # ""
        THEN IF ~r.ok THEN [none EXCEPT !.status = "BadRequest"]
             ELSE IF byRev = {} THEN none
             ELSE [status |-> "ok", r |-> [rev |-> r.rev, id |-> r.id],
                   body |-> (CHOOSE x \in byRev : TRUE).doc]
        ELSE IF top = {} THEN none
             ELSE LET t == CHOOSE t \in top : TRUE
                  IN  IF t.deleted THEN none
                      ELSE [status |-> "ok", r |-> [rev |-> t.rev, id |-> t.rev_id],
                            body |-> t.doc]

\* Get opens a transaction, runs its first query and, when that finds a
\* body, the queries of the metadata the options ask for; it returns the rev
\* and the body with that metadata.
GetOutcome(d, id, opts) ==
    LET tx == BeginTx(d)
        sel == GetSelect(tx, id, opts)
    IN  IF sel.status # "ok" THEN GetError(sel.status)
        ELSE GetDocument(tx, id, sel.r, sel.body, opts)

----------------------------------------------------------------------------
(* db.AllDocs and db.Changes *)

\* The rows of a body table in the order of a scan of the table: by rowid,
\* which is seq.
RowsBySeq(rows) ==
    [i \in 1..Cardinality(rows) |->
        CHOOSE r \in rows : Cardinality({o \in rows : o.seq < r.seq}) = i - 1]

\* a comes before b in the index of UNIQUE(id, rev, rev_id).
KeyBefore(a, b) ==
    \/ IDRank(a.id) < IDRank(b.id)
    \/ a.id = b.id /\ RevBefore(b, a)

\* The rows of a body table in the order of a scan of that index.
RowsByKey(rows) ==
    [i \in 1..Cardinality(rows) |->
        CHOOSE r \in rows : Cardinality({o \in rows : KeyBefore(o, r)}) = i - 1]

\* AllDocs: SELECT id, rev || '-' || rev_id FROM <d>, one row of the result
\* for each row of the body table. The query reads only columns of the
\* index of UNIQUE(id, rev, rev_id), which SQLite scans in place of the
\* table. The handler does not read its options.
AllDocsRows(d) ==
    LET scan == RowsByKey(docs[d])
    IN  [i \in 1..Len(scan) |->
            [id |-> scan[i].id, rev |-> RevString(scan[i].rev, scan[i].rev_id)]]

\* The table the query of Changes names in its FROM clause.
ChangesTable(d) == "test"

\* The rows of the CTE "results" of Changes: the body table ORDER BY seq.
ChangesResults(d) == RowsBySeq(docs[ChangesTable(d)])

\* The first row of the query: COUNT(*) || '.' || COALESCE(MIN(seq),0) || '.'
\* || COALESCE(MAX(seq),0) over results.
ChangesSummary(d) ==
    LET rs == ChangesResults(d)
        n == Len(rs)
    IN  ToString(n) \o "." \o ToString(IF n = 0 THEN 0 ELSE rs[1].seq)
                   \o "." \o ToString(IF n = 0 THEN 0 ELSE rs[n].seq)

\* The rows the cursor of Changes delivers: id, seq, deleted and the rev string.
ChangesRows(d) ==
    LET rs == ChangesResults(d)
    IN  [i \in 1..Len(rs) |->
            [id |-> rs[i].id, seq |-> rs[i].seq, deleted |-> rs[i].deleted,
             rev |-> RevString(rs[i].rev, rs[i].rev_id)]]

\* hex.EncodeToString of the MD5 of a string: one digest for each string.
MD5Hex(summary) == "md5(" \o summary \o ")"

\* A cursor that reads the body table as it is committed at the time of each
\* Next.
CursorRowsUncommittedRead(d, f) == ChangesRows(d)

\* The rows a cursor steps through: both halves of the UNION ALL belong to
\* one statement, which reads in one implicit transaction the tables as they
\* were committed when it began.
CursorRows(d, f) == f.results

\* A transaction whose every query reads the tables as they are committed at
\* the time of the query.
TxReadCommitted(d, t) == Tables(d)

\* What a query of the transaction of a Get reads: the tables as they were
\* committed when the first query of the transaction ran.
TxRead(d, t) == t.snapshot

\* The callers that write at the same time.
Writers == {1, 2}

\* wtx[w] when caller w has no write in progress.
NoWrite == [pc |-> "none", op |-> "", db |-> "", id |-> "", rev |-> "",
            doc |-> DeleteDoc,
            snapshot |-> [revs |-> {}, docs |-> {}, atts |-> {}],
            tables |-> [revs |-> {}, docs |-> {}, atts |-> {}],
            cur |-> [rev |-> 0, id |-> ""], out |-> ""]

\* A database that lets a transaction write whatever has been committed or
\* written by others since it began to read.
TxWritableAlways(d, w) == TRUE

\* Whether the transaction of caller w, which has read, may write: no other
\* transaction has written without having ended, and nothing has been
\* committed since this one began to read. Otherwise its statement fails
\* (the database is busy).
TxWritable(d, w) ==
    /\ \A o \in Writers \ {w} : ~(wtx[o].pc = "written" /\ wtx[o].db = d)
    /\ Tables(d) = wtx[w].snapshot

\* changes.LastSeq: "" while the rows are open (Columns gives no error), the
\* seq of the last row Next scanned once they are closed.
LastSeq(f) == IF f.state = "open" THEN "" ELSE f.lastSeq

----------------------------------------------------------------------------
(* The calls and the specification *)

\* The names callers give the databases of a client. validDBNameRE is
\* ^[a-z][a-z0-9_$()+/-]*$: "_users" and "Test" do not match it.
ClientNames == {"test", "db2", "test_revs", "_users", "Test"}

validDBName(name) == name \in {"test", "db2", "test_revs"}

\* d.query: the table names a statement of database name is written for.
RevsTable(name) == name \o "_revs"

AttachmentsTable(name) == name \o "_attachments"

DBTables(name) == {name, RevsTable(name), AttachmentsTable(name)}

\* The tables SQLite keeps for itself, the names LIKE 'sqlite_%'.
IsInternalTable(name) == name \in {"sqlite_sequence", "sqlite_stat1"}

\* A schema: its tables in the order of sqlite_schema, its indexes, and the
\* names a CreateDB has succeeded for and no DestroyDB since.
NoSchema == [tables |-> <<>>, indexes |-> {}, created |-> {}]

HasTable(sch, name) == \E i \in 1..Len(sch.tables) : sch.tables[i] = name

\* The statements of schema, one after the other: CREATE TABLE <name>_revs,
\* CREATE INDEX idx_parent ON <name>_revs, CREATE TABLE <name>, CREATE TABLE
\* <name>_attachments. Each fails when what it creates exists.
SchemaStatements(name) ==
    <<[table |-> RevsTable(name), index |-> ""],
      [table |-> RevsTable(name), index |-> "idx_parent"],
      [table |-> name, index |-> ""],
      [table |-> AttachmentsTable(name), index |-> ""]>>

\* tx.ExecContext of the statements from the i-th on: the schema they leave
\* and whether one of them found its table or index there.
RECURSIVE ExecSchema(_, _, _)
ExecSchema(sch, stmts, i) ==
    IF i > Len(stmts) THEN [ok |-> TRUE, schema |-> sch]
    ELSE LET q == stmts[i]
         IN  IF q.index = ""
             THEN IF HasTable(sch, q.table) THEN [ok |-> FALSE, schema |-> sch]
                  ELSE ExecSchema([sch EXCEPT !.tables = Append(@, q.table)],
                                  stmts, i + 1)
             ELSE IF \E x \in sch.indexes : x.name = q.index
                  THEN [ok |-> FALSE, schema |-> sch]
                  ELSE ExecSchema([sch EXCEPT !.indexes =
                                      @ \cup {[name |-> q.index, on |-> q.table]}],
                                  stmts, i + 1)

\* client.CreateDB: BadRequest for a name the expression does not match;
\* else the statements of schema in one transaction, PreconditionFailed and
\* the rollback of the transaction when one of them fails with "already
\* exists", the commit otherwise.
CreateDBOutcome(sch, name) ==
    LET x == ExecSchema(sch, SchemaStatements(name), 1)
    IN  IF ~validDBName(name) THEN [status |-> "BadRequest", schema |-> sch]
        ELSE IF ~x.ok THEN [status |-> "PreconditionFailed", schema |-> sch]
        ELSE [status |-> "ok",
              schema |-> [x.schema EXCEPT !.created = @ \cup {name}]]

\* The schema of a client in which one database has been created.
CreatedSchema(name) == CreateDBOutcome(NoSchema, name).schema

\* client.DestroyDB: BadRequest for a name the expression does not match;
\* else DROP TABLE "<name>", which drops the indexes on that table with it,
\* and NotFound when there is no such table.
DestroyDBOutcome(sch, name) ==
    IF ~validDBName(name) THEN [status |-> "BadRequest", schema |-> sch]
    ELSE IF ~HasTable(sch, name) THEN [status |-> "NotFound", schema |-> sch]
    ELSE [status |-> "ok",
          schema |-> [sch EXCEPT !.tables = SelectSeq(@, LAMBDA t : t # name),
                                 !.indexes = {x \in @ : x.on # name},
                                 !.created = @ \ {name}]]

\* client.AllDBs: the names of the tables of sqlite_schema that are not LIKE
\* 'sqlite_%'.
AllDBsRows(sch) == SelectSeq(sch.tables, LAMBDA t : ~IsInternalTable(t))

\* client.DBExists: sqlite_schema has a table of that name.
DBExistsResult(sch, name) == HasTable(sch, name)

\* res when no call has returned a result that is still to be consumed.
NoCall == [op |-> "none", db |-> "", id |-> "", doc |-> DeleteDoc,
           opts |-> [rev |-> "", new_edits |-> TRUE], rev |-> "",
           fault |-> "none", status |-> "ok", out |-> "", body |-> "", rows |-> <<>>,
           vopts |-> NoViewOpts, gopts |-> NoGetOpts, conflicts |-> {},
           deleted_conflicts |-> {}, revs_info |-> <<>>]

\* feed when no changes feed has been opened.
NoFeed == [state |-> "none", db |-> "", results |-> <<>>, pos |-> 0,
           lastSeq |-> "", etag |-> "", eof |-> FALSE, delivered |-> <<>>]

\* rtx when no Get is in progress.
NoRead == [pc |-> "none", db |-> "", id |-> "",
           opts |-> [rev |-> "", conflicts |-> FALSE, deleted_conflicts |-> FALSE,
                     revs_info |-> FALSE, meta |-> FALSE],
           snapshot |-> [revs |-> {}, docs |-> {}, atts |-> {}],
           r |-> [rev |-> 0, id |-> ""], body |-> "",
           conflicts |-> {}, deleted_conflicts |-> {}]

\* The rev strings callers present for document id: none, the revisions the
\* database holds for it, and the revisions of a replication source.
RevInputs(d, id) ==
    {""} \cup ExternalRevs
         \cup {RevString(r.rev, r.rev_id) : r \in {x \in revs[d] : x.id = id}}

\* ids beginning with "_local/".
LocalIDs == {"_local/dog"}

MkDoc(i, rv, rs, b) ==
    [id |-> i, rev |-> rv, revisions |-> rs, deleted |-> b.deleted,
     content |-> b.content, attachments |-> {}]

MkCall(doc, orev, ne, fault) ==
    [doc |-> doc, opts |-> [rev |-> orev, new_edits |-> ne], fault |-> fault]

\* The calls of Put on document id.
PutCalls(d, id) ==
    IF id \in LocalIDs
    THEN \* a local document is written interactively
         {MkCall(MkDoc("", rv, NoRevisions, PlainBody), "", TRUE, "none") :
             rv \in RevInputs(d, id)}
    ELSE \* the rev in the body, in both modes, with and without storage faults
         {MkCall(MkDoc("", rv, NoRevisions, b), "", ne, f) :
             rv \in RevInputs(d, id), b \in Bodies, ne \in BOOLEAN, f \in Faults}
         \* the rev as an option, alone or beside a rev in the body
         \cup {MkCall(MkDoc("", rv, NoRevisions, PlainBody), orv, ne, "none") :
                 rv \in {"", "1-aaa"}, orv \in RevInputs(d, id) \ {""},
                 ne \in BOOLEAN}
         \* a body with _revisions
         \cup {MkCall(MkDoc("", rv, rs, b), orv, ne, "none") :
                 rv \in {"", "1-aaa"}, rs \in RevisionsInputs \ {NoRevisions},
                 orv \in {"", "1-aaa"}, b \in Bodies, ne \in BOOLEAN}
         \* an interactive write whose _revisions names another ancestor
         \cup {MkCall(MkDoc("", "", WrongHistory, PlainBody), "", TRUE, "none")}
         \* a body with _attachments
         \cup {MkCall([MkDoc("", rv, NoRevisions, PlainBody)
                          EXCEPT !.attachments = a], "", TRUE, "none") :
                 rv \in {""}, a \in AttachmentInputs \ {{}}}
         \* a body whose _id is not the id of the call
         \cup {MkCall(MkDoc("bar", "", NoRevisions, PlainBody), "", TRUE, "none")}

Init ==
    /\ revs = [d \in DBNames |-> {}]
    /\ docs = [d \in DBNames |-> {}]
    /\ atts = [d \in DBNames |-> {}]
    /\ res = NoCall
    /\ feed = NoFeed
    /\ rtx = NoRead
    /\ wtx = [w \in Writers |-> NoWrite]
    /\ schema = CreatedSchema("test")

\* A write leaves the tables of its outcome committed.
Store(d, tables) ==
    /\ Cardinality(tables.docs) <= MaxRows
    /\ revs' = [revs EXCEPT ![d] = tables.revs]
    /\ docs' = [docs EXCEPT ![d] = tables.docs]
    /\ atts' = [atts EXCEPT ![d] = tables.atts]
    /\ UNCHANGED <<feed, rtx, schema, wtx>>

Put(d) ==
    /\ res = NoCall
    /\ \E docID \in DocIDs :
       \E c \in PutCalls(d, docID) :
        LET o == PutOutcome(d, docID, c.doc, c.opts, c.fault)
        IN  /\ Store(d, o.tables)
            /\ res' = [NoCall EXCEPT !.op = "Put", !.db = d, !.id = docID,
                          !.doc = c.doc, !.opts = c.opts,
                          !.rev = EffectiveRev(c.doc, c.opts), !.fault = c.fault,
                          !.status = o.status, !.out = o.out]

Delete(d) ==
    /\ res = NoCall
    /\ \E docID \in DocIDs, fault \in Faults :
       \E rv \in RevInputs(d, docID) :
        LET o == DeleteOutcome(d, docID, [rev |-> rv], fault)
        IN  /\ Store(d, o.tables)
            /\ res' = [NoCall EXCEPT !.op = "Delete", !.db = d, !.id = docID,
                          !.opts = [rev |-> rv, new_edits |-> TRUE], !.rev = rv,
                          !.fault = fault, !.status = o.status, !.out = o.out]

Get(d) ==
    /\ res = NoCall
    /\ \E id \in DocIDs :
       \E rv \in RevInputs(d, id), g \in GetOptions :
        LET o == GetOutcome(d, id, [rev |-> rv, conflicts |-> g.conflicts,
                                    deleted_conflicts |-> g.deleted_conflicts,
                                    revs_info |-> g.revs_info, meta |-> g.meta])
        IN  /\ res' = [NoCall EXCEPT !.op = "Get", !.db = d, !.id = id,
                          !.opts = [rev |-> rv, new_edits |-> TRUE], !.rev = rv,
                          !.gopts = g, !.status = o.status, !.out = o.rev,
                          !.body = o.body, !.conflicts = o.conflicts,
                          !.deleted_conflicts = o.deleted_conflicts,
                          !.revs_info = o.revs_info]
            /\ UNCHANGED <<revs, docs, atts, feed, rtx, schema, wtx>>

\* AllDocs called with one of the options of a set.
AllDocsCall(d, options) ==
    /\ res = NoCall
    /\ \E o \in options :
          res' = [NoCall EXCEPT !.op = "AllDocs", !.db = d, !.vopts = o,
                     !.rows = AllDocsRows(d)]
    /\ UNCHANGED <<revs, docs, atts, feed, rtx, schema, wtx>>

AllDocs(d) == AllDocsCall(d, {NoViewOpts})

Changes(d) ==
    /\ res = NoCall
    /\ res' = [NoCall EXCEPT !.op = "Changes", !.db = d,
                  !.out = ChangesSummary(d), !.rows = ChangesRows(d)]
    /\ UNCHANGED <<revs, docs, atts, feed, rtx, schema, wtx>>

\* The caller takes the result of its call; it may then make the next one.
Return ==
    /\ res # NoCall
    /\ res' = NoCall
    /\ UNCHANGED <<revs, docs, atts, feed, rtx, schema, wtx>>

Next ==
    \/ \E d \in SpecDBs : Put(d)
    \/ \E d \in SpecDBs : Delete(d)
    \/ \E d \in SpecDBs : Get(d)
    \/ \E d \in SpecDBs : AllDocs(d)
    \/ \E d \in SpecDBs : Changes(d)
    \/ Return

Spec == Init /\ [][Next]_vars

\* The view queries: documents are created interactively, in any order, and
\* AllDocs is called with options.
PutNew(d) ==
    /\ res = NoCall
    /\ \E docID \in ViewIDs :
        LET c == MkCall(MkDoc("", "", NoRevisions, PlainBody), "", TRUE, "none")
            o == PutOutcome(d, docID, c.doc, c.opts, c.fault)
        IN  /\ Store(d, o.tables)
            /\ res' = [NoCall EXCEPT !.op = "Put", !.db = d, !.id = docID,
                          !.doc = c.doc, !.opts = c.opts,
                          !.rev = EffectiveRev(c.doc, c.opts), !.fault = c.fault,
                          !.status = o.status, !.out = o.out]

AllDocsQuery(d) == AllDocsCall(d, AllDocsOptions)

NextViews ==
    \/ \E d \in SpecDBs : PutNew(d)
    \/ \E d \in SpecDBs : AllDocsQuery(d)
    \/ Return

SpecViews == Init /\ [][NextViews]_vars

\* The changes feed read row by row while documents are created. One feed is
\* read at a time. feed.state is "open" while the rows of the feed are open
\* and "closed" once they are closed; feed.eof records that Next has returned
\* io.EOF and feed.delivered the rows Next has scanned.

\* db.Changes: run the query, read its first row and hash it.
ChangesQuery(d) ==
    /\ res = NoCall
    /\ feed.state # "open"
    /\ feed' = [NoFeed EXCEPT !.state = "open", !.db = d,
                   !.results = ChangesRows(d),
                   !.etag = MD5Hex(ChangesSummary(d))]
    /\ res' = [NoCall EXCEPT !.op = "ChangesQuery", !.db = d,
                  !.out = MD5Hex(ChangesSummary(d))]
    /\ UNCHANGED <<revs, docs, atts, rtx, schema, wtx>>

\* changes.Next: scan the next row and keep its seq, or return io.EOF; rows
\* that have no next row close themselves.
ChangesNext ==
    /\ res = NoCall
    /\ feed.state = "open"
    /\ LET rows == CursorRows(feed.db, feed)
       IN  IF feed.pos < Len(rows)
           THEN LET change == rows[feed.pos + 1]
                IN  /\ feed' = [feed EXCEPT !.pos = @ + 1,
                                   !.lastSeq = ToString(change.seq),
                                   !.delivered = Append(@, change)]
                    /\ res' = [NoCall EXCEPT !.op = "Next", !.db = feed.db,
                                  !.rows = <<change>>]
           ELSE /\ feed' = [feed EXCEPT !.state = "closed", !.eof = TRUE]
                /\ res' = [NoCall EXCEPT !.op = "Next", !.db = feed.db,
                              !.status = "EOF"]
    /\ UNCHANGED <<revs, docs, atts, rtx, schema, wtx>>

\* changes.Close: close the rows.
ChangesClose ==
    /\ res = NoCall
    /\ feed.state = "open"
    /\ feed' = [feed EXCEPT !.state = "closed"]
    /\ res' = [NoCall EXCEPT !.op = "Close", !.db = feed.db]
    /\ UNCHANGED <<revs, docs, atts, rtx, schema, wtx>>

ChangesLastSeq ==
    /\ res = NoCall
    /\ feed.state # "none"
    /\ res' = [NoCall EXCEPT !.op = "LastSeq", !.db = feed.db,
                  !.out = LastSeq(feed)]
    /\ UNCHANGED <<revs, docs, atts, feed, rtx, schema, wtx>>

NextFeed ==
    \/ \E d \in SpecDBs : PutNew(d)
    \/ \E d \in SpecDBs : ChangesQuery(d)
    \/ ChangesNext
    \/ ChangesClose
    \/ ChangesLastSeq
    \/ Return

SpecFeed == Init /\ [][NextFeed]_vars

\* Get, query by query, while the document it reads is written. One Get is in
\* progress at a time; rtx.pc is the query it has run last.

\* The writes on the document: the rev in the body, in both modes, and a body
\* with _revisions.
PutDuringRead(d) ==
    /\ res = NoCall
    /\ \E c \in {MkCall(MkDoc("", rv, NoRevisions, b), "", ne, "none") :
                    rv \in RevInputs(d, "foo"), b \in Bodies, ne \in BOOLEAN}
               \cup {MkCall(MkDoc("", "", rs, PlainBody), "", FALSE, "none") :
                        rs \in RevisionsInputs \ {NoRevisions}} :
        LET o == PutOutcome(d, "foo", c.doc, c.opts, c.fault)
        IN  /\ Store(d, o.tables)
            /\ res' = [NoCall EXCEPT !.op = "Put", !.db = d, !.id = "foo",
                          !.doc = c.doc, !.opts = c.opts,
                          !.rev = EffectiveRev(c.doc, c.opts), !.fault = c.fault,
                          !.status = o.status, !.out = o.out]

\* db.Get to BeginTx: the options are applied and the transaction is opened.
\* It has read nothing yet.
GetBeginTx(d) ==
    /\ res = NoCall
    /\ rtx.pc = "none"
    /\ \E rv \in {""} \cup ExternalRevs, g \in GetOptions :
          rtx' = [NoRead EXCEPT !.pc = "begun", !.db = d, !.id = "foo",
                     !.opts = [rev |-> rv, conflicts |-> g.conflicts,
                               deleted_conflicts |-> g.deleted_conflicts,
                               revs_info |-> g.revs_info, meta |-> g.meta]]
    /\ UNCHANGED <<revs, docs, atts, res, feed, schema, wtx>>

\* What the caller of the Get in progress receives.
GetReturn(o) ==
    res' = [NoCall EXCEPT !.op = "Get", !.db = rtx.db, !.id = rtx.id,
               !.opts = [rev |-> rtx.opts.rev, new_edits |-> TRUE],
               !.rev = rtx.opts.rev,
               !.gopts = [conflicts |-> rtx.opts.conflicts,
                          deleted_conflicts |-> rtx.opts.deleted_conflicts,
                          revs_info |-> rtx.opts.revs_info, meta |-> rtx.opts.meta],
               !.status = o.status, !.out = o.rev, !.body = o.body,
               !.conflicts = o.conflicts,
               !.deleted_conflicts = o.deleted_conflicts,
               !.revs_info = o.revs_info]

\* The first query: the body by rev, or the top body row. The transaction
\* begins to read here. A Get that finds no body returns.
GetQueryBody ==
    /\ res = NoCall
    /\ rtx.pc = "begun"
    /\ LET t == [rtx EXCEPT !.snapshot = Tables(rtx.db)]
           sel == GetSelect(TxRead(rtx.db, t), rtx.id, rtx.opts)
       IN  IF sel.status # "ok"
           THEN /\ GetReturn(GetError(sel.status))
                /\ rtx' = NoRead
           ELSE /\ rtx' = [t EXCEPT !.pc = "body", !.r = sel.r, !.body = sel.body]
                /\ res' = res
    /\ UNCHANGED <<revs, docs, atts, feed, schema, wtx>>

\* The query of _conflicts, when conflicts or meta asks for it.
GetQueryConflicts ==
    /\ res = NoCall
    /\ rtx.pc = "body"
    /\ rtx' = [rtx EXCEPT !.pc = "conflicts",
                  !.conflicts =
                      IF rtx.opts.conflicts \/ rtx.opts.meta
                      THEN conflicts(TxRead(rtx.db, rtx), rtx.id, rtx.r, FALSE)
                      ELSE {}]
    /\ UNCHANGED <<revs, docs, atts, res, feed, schema, wtx>>

\* The query of _deleted_conflicts, when deleted_conflicts or meta asks for it.
GetQueryDeletedConflicts ==
    /\ res = NoCall
    /\ rtx.pc = "conflicts"
    /\ rtx' = [rtx EXCEPT !.pc = "deleted_conflicts",
                  !.deleted_conflicts =
                      IF rtx.opts.deleted_conflicts \/ rtx.opts.meta
                      THEN conflicts(TxRead(rtx.db, rtx), rtx.id, rtx.r, TRUE)
                      ELSE {}]
    /\ UNCHANGED <<revs, docs, atts, res, feed, schema, wtx>>

\* The query of _revs_info, when revs_info or meta asks for it; then the
\* metadata is merged into the body and the document is returned.
GetQueryRevsInfo ==
    /\ res = NoCall
    /\ rtx.pc = "deleted_conflicts"
    /\ GetReturn([status |-> "ok", rev |-> RevString(rtx.r.rev, rtx.r.id),
                  body |-> rtx.body, conflicts |-> rtx.conflicts,
                  deleted_conflicts |-> rtx.deleted_conflicts,
                  revs_info |-> IF rtx.opts.revs_info \/ rtx.opts.meta
                                THEN RevsInfo(TxRead(rtx.db, rtx), rtx.id, rtx.r)
                                ELSE <<>>])
    /\ rtx' = NoRead
    /\ UNCHANGED <<revs, docs, atts, feed, schema, wtx>>

NextRead ==
    \/ \E d \in SpecDBs : PutDuringRead(d)
    \/ \E d \in SpecDBs : GetBeginTx(d)
    \/ GetQueryBody
    \/ GetQueryConflicts
    \/ GetQueryDeletedConflicts
    \/ GetQueryRevsInfo
    \/ Return

SpecRead == Init /\ [][NextRead]_vars

\* The databases of a client: they are created and destroyed, listed and
\* looked up, and documents are created in them.

\* A client that has created no database.
InitClient ==
    /\ revs = [d \in DBNames |-> {}]
    /\ docs = [d \in DBNames |-> {}]
    /\ atts = [d \in DBNames |-> {}]
    /\ res = NoCall
    /\ feed = NoFeed
    /\ rtx = NoRead
    /\ wtx = [w \in Writers |-> NoWrite]
    /\ schema = NoSchema

CreateDB(name) ==
    /\ res = NoCall
    /\ LET o == CreateDBOutcome(schema, name)
       IN  /\ schema' = o.schema
           /\ res' = [NoCall EXCEPT !.op = "CreateDB", !.db = name,
                         !.status = o.status]
    /\ UNCHANGED <<revs, docs, atts, feed, rtx, wtx>>

\* The rows a DROP TABLE removes: those of the table; and, when the table is
\* the revision table of a database and foreign keys are enforced (fk), the
\* rows that refer to its rows (ON DELETE CASCADE).
DropRows(name, fk) ==
    /\ revs' = [d \in DBNames |-> IF name = RevsTable(d) THEN {} ELSE revs[d]]
    /\ docs' = [d \in DBNames |->
                  IF name = d \/ (fk /\ name = RevsTable(d)) THEN {} ELSE docs[d]]
    /\ atts' = [d \in DBNames |->
                  IF name = AttachmentsTable(d) \/ (fk /\ name = RevsTable(d))
                  THEN {} ELSE atts[d]]

DestroyDB(name) ==
    /\ res = NoCall
    /\ LET o == DestroyDBOutcome(schema, name)
       IN  /\ schema' = o.schema
           /\ res' = [NoCall EXCEPT !.op = "DestroyDB", !.db = name,
                         !.status = o.status]
           /\ IF o.status = "ok"
              THEN \E fk \in BOOLEAN : DropRows(name, fk)
              ELSE UNCHANGED <<revs, docs, atts, wtx>>
    /\ UNCHANGED <<feed, rtx, wtx>>

AllDBs ==
    /\ res = NoCall
    /\ res' = [NoCall EXCEPT !.op = "AllDBs", !.rows = AllDBsRows(schema)]
    /\ UNCHANGED <<revs, docs, atts, feed, rtx, schema, wtx>>

DBExists(name) ==
    /\ res = NoCall
    /\ res' = [NoCall EXCEPT !.op = "DBExists", !.db = name,
                  !.out = IF DBExistsResult(schema, name) THEN "true" ELSE "false"]
    /\ UNCHANGED <<revs, docs, atts, feed, rtx, schema, wtx>>

\* A document is created in database d; the statements of Put fail when a
\* table of d is not there.
PutStored(d) ==
    /\ res = NoCall
    /\ IF \A t \in DBTables(d) : HasTable(schema, t)
       THEN PutNew(d)
       ELSE /\ res' = [NoCall EXCEPT !.op = "Put", !.db = d, !.status = "Internal"]
            /\ UNCHANGED <<revs, docs, atts, feed, rtx, schema, wtx>>

NextClient ==
    \/ \E name \in ClientNames : CreateDB(name)
    \/ \E name \in ClientNames : DestroyDB(name)
    \/ AllDBs
    \/ \E name \in ClientNames : DBExists(name)
    \/ \E d \in DBNames : PutStored(d)
    \/ Return

SpecClient == InitClient /\ [][NextClient]_vars

\* Two databases in one SQLite file: documents are created and deleted in
\* either, and either is read.

\* A client opened on a file that holds the tables of both databases.
InitShared ==
    /\ revs = [d \in DBNames |-> {}]
    /\ docs = [d \in DBNames |-> {}]
    /\ atts = [d \in DBNames |-> {}]
    /\ res = NoCall
    /\ feed = NoFeed
    /\ rtx = NoRead
    /\ wtx = [w \in Writers |-> NoWrite]
    /\ schema = [tables |-> <<"test_revs", "test", "test_attachments",
                              "db2_revs", "db2", "db2_attachments">>,
                 indexes |-> {[name |-> "idx_parent", on |-> "test_revs"]},
                 created |-> DBNames]

\* Delete of one of the documents PutNew creates.
DeleteStored(d) ==
    /\ res = NoCall
    /\ \E docID \in ViewIDs :
       \E rv \in {RevString(r.rev, r.rev_id) : r \in {x \in revs[d] : x.id = docID}} :
        LET o == DeleteOutcome(d, docID, [rev |-> rv], "none")
        IN  /\ Store(d, o.tables)
            /\ res' = [NoCall EXCEPT !.op = "Delete", !.db = d, !.id = docID,
                          !.opts = [rev |-> rv, new_edits |-> TRUE], !.rev = rv,
                          !.status = o.status, !.out = o.out]

NextShared ==
    \/ \E d \in DBNames : PutNew(d)
    \/ \E d \in DBNames : DeleteStored(d)
    \/ \E d \in DBNames : AllDocs(d)
    \/ \E d \in DBNames : Changes(d)
    \/ Return

SpecShared == InitShared /\ [][NextShared]_vars

\* Two callers write document foo with new_edits=true at the same time, each
\* in its transaction, statement by statement.

\* What caller w receives; its transaction has ended.
WriterReturn(w, status, out) ==
    /\ res' = [NoCall EXCEPT !.op = wtx[w].op, !.db = wtx[w].db, !.id = wtx[w].id,
                  !.doc = wtx[w].doc,
                  !.opts = [rev |-> IF wtx[w].op = "Delete" THEN wtx[w].rev ELSE "",
                            new_edits |-> TRUE],
                  !.rev = wtx[w].rev, !.status = status, !.out = out]
    /\ wtx' = [wtx EXCEPT ![w] = NoWrite]

\* db.Put and db.Delete to BeginTx: the rev and the body of the call.
WriterBegin(w, d) ==
    /\ res = NoCall
    /\ wtx[w].pc = "none"
    /\ \E rv \in RevInputs(d, "foo") :
       \E c \in {[op |-> "Put", doc |-> MkDoc("", rv, NoRevisions, b)] : b \in Bodies}
                 \cup {[op |-> "Delete", doc |-> DeleteDoc]} :
          wtx' = [wtx EXCEPT ![w] =
                     [NoWrite EXCEPT !.pc = "begun", !.op = c.op, !.db = d,
                                     !.id = "foo", !.rev = rv, !.doc = c.doc]]
    /\ UNCHANGED <<revs, docs, atts, res, feed, rtx, schema>>

\* The query of the current rev; here the transaction begins to read. Delete
\* fails with NotFound when the document has no body row, and both fail with
\* a conflict unless the current rev is the rev of the call.
WriterSelect(w) ==
    /\ res = NoCall
    /\ wtx[w].pc = "begun"
    /\ LET t == wtx[w]
           snap == Tables(t.db)
           top == TopDoc(snap.docs, t.id)
           cur == IF top = {} THEN [rev |-> 0, id |-> ""]
                  ELSE LET x == CHOOSE x \in top : TRUE
                       IN  [rev |-> x.rev, id |-> x.rev_id]
       IN  IF t.op = "Delete" /\ top = {}
           THEN WriterReturn(w, "NotFound", "")
           ELSE IF RevString(cur.rev, cur.id) # t.rev
           THEN WriterReturn(w, "Conflict", "")
           ELSE /\ wtx' = [wtx EXCEPT ![w] =
                              [t EXCEPT !.pc = "read", !.snapshot = snap,
                                        !.tables = snap, !.cur = cur]]
                /\ res' = res
    /\ UNCHANGED <<revs, docs, atts, feed, rtx, schema>>

\* The two INSERT statements: the child of the current rev with rev
\* MAX(rev) + 1, and its body row. They fail when the database is busy and
\* when a row of the key exists.
WriterInsert(w) ==
    /\ res = NoCall
    /\ wtx[w].pc = "read"
    /\ Cardinality(wtx[w].snapshot.docs) < MaxRows
    /\ LET t == wtx[w]
           data == prepareDoc(t.id, t.doc)
           r == [rev |-> MaxRev(t.tables.revs, t.id) + 1, id |-> data.Rev]
           tx1 == [t.tables EXCEPT !.revs =
                      @ \cup {RevRow(t.id, r.rev, r.id,
                                     IF t.cur.rev # 0 THEN t.cur.rev ELSE NULL_REV,
                                     IF t.cur.rev # 0 THEN t.cur.id ELSE NULL_ID)}]
           tx2 == [tx1 EXCEPT !.docs =
                      @ \cup {DocRow(NextSeq(tx1.docs), t.id, r.rev, r.id, data.Doc,
                                     IF t.op = "Delete" THEN TRUE ELSE data.Deleted)}]
       IN  IF ~TxWritable(t.db, w)
              \/ HasKey(t.tables.revs, t.id, r.rev, r.id)
              \/ HasKey(tx1.docs, t.id, r.rev, r.id)
           THEN WriterReturn(w, "Internal", "")
           ELSE /\ wtx' = [wtx EXCEPT ![w] =
                              [t EXCEPT !.pc = "written", !.tables = tx2,
                                        !.out = RevString(r.rev, r.id)]]
                /\ res' = res
    /\ UNCHANGED <<revs, docs, atts, feed, rtx, schema>>

\* tx.Commit: the rows the transaction has written are committed; or, while
\* another transaction reads, the database may be busy, and the transaction
\* is rolled back.
WriterCommit(w) ==
    /\ res = NoCall
    /\ wtx[w].pc = "written"
    /\ LET t == wtx[w]
           d == t.db
       IN  \/ /\ revs' = [revs EXCEPT ![d] = @ \cup (t.tables.revs \ t.snapshot.revs)]
              /\ docs' = [docs EXCEPT ![d] = @ \cup (t.tables.docs \ t.snapshot.docs)]
              /\ WriterReturn(w, "ok", t.out)
           \/ /\ \E o \in Writers \ {w} : wtx[o].pc = "read" /\ wtx[o].db = d
              /\ UNCHANGED <<revs, docs>>
              /\ WriterReturn(w, "Internal", t.out)
    /\ UNCHANGED <<atts, feed, rtx, schema>>

NextWriters ==
    \/ \E w \in Writers, d \in SpecDBs : WriterBegin(w, d)
    \/ \E w \in Writers : WriterSelect(w)
    \/ \E w \in Writers : WriterInsert(w)
    \/ \E w \in Writers : WriterCommit(w)
    \/ Return

SpecWriters == Init /\ [][NextWriters]_vars

----------------------------------------------------------------------------
(* The terms of the specification the properties are stated in *)

\* The call passes the checks Put makes before it opens its transaction: the
\* body's rev and the rev option agree, the body's _id is the id of the call,
\* and every entry of _attachments has data or is a stub.
WellFormed(c) ==
    /\ ~(c.opts.rev # "" /\ extractRev(c.doc) # "" /\ c.opts.rev # extractRev(c.doc))
    /\ (c.doc.id = "" \/ c.doc.id = c.id)
    /\ \A a \in c.doc.attachments : a.kind # "none"

\* The revision nodes and the body rows of document id in the committed tables.
NodesOf(d, id) == {n \in revs[d] : n.id = id}

BodiesOf(d, id) == {b \in docs[d] : b.id = id}

\* A leaf: a revision node that is no node's parent.
IsLeaf(d, n) ==
    ~\E c \in revs[d] :
        c.id = n.id /\ c.parent_rev = n.rev /\ c.parent_rev_id = n.rev_id

LeavesOf(d, id) == {n \in NodesOf(d, id) : IsLeaf(d, n)}

\* The body row of node n is deleted.
IsDeleted(d, n) ==
    \E b \in docs[d] :
        b.id = n.id /\ b.rev = n.rev /\ b.rev_id = n.rev_id /\ b.deleted

\* The highest of a set of nodes by (rev, then rev_id): empty or one node.
Highest(nodes) ==
    {n \in nodes : \A o \in nodes : o # n => RevBefore(n, o)}

\* The winner of Get: the highest leaf that is not deleted.
LiveWinner(d, id) == Highest({n \in LeavesOf(d, id) : ~IsDeleted(d, n)})

\* The winner a write is checked against: the live winner, or the highest
\* deleted leaf when every leaf is deleted.
Winner(d, id) ==
    IF LiveWinner(d, id) # {} THEN LiveWinner(d, id) ELSE Highest(LeavesOf(d, id))

\* The string form of a winner; "" when there is none.
WinnerString(w) ==
    IF w = {} THEN "" ELSE LET n == CHOOSE n \in w : TRUE IN RevString(n.rev, n.rev_id)

----------------------------------------------------------------------------
(* Properties *)

\* C1: a Put or Delete, in either new_edits mode, that returns an error leaves
\* the revision table, the body table and the attachment table exactly as
\* they were before the call.
C1_WriteAtomicity ==
    [][(res'.op \in {"Put", "Delete"} /\ res'.status # "ok")
        => (revs' = revs /\ docs' = docs /\ atts' = atts)]_vars

\* A Put has failed at its insert into the body table, after its insert into
\* the revision table, in a database that holds rows.
C1_Witness ==
    /\ res.op = "Put" /\ res.status = "Internal" /\ res.fault = "docs"
    /\ docs[res.db] # {}

\* C4: every revision node has both parent columns NULL, or both set to an
\* existing node of the same document whose rev is one less.
C4_TreeShape ==
    \A d \in DBNames : \A n \in revs[d] :
        \/ n.parent_rev = NULL_REV /\ n.parent_rev_id = NULL_ID
        \/ /\ n.parent_rev # NULL_REV /\ n.parent_rev_id # NULL_ID
           /\ n.parent_rev = n.rev - 1
           /\ \E p \in revs[d] :
                 p.id = n.id /\ p.rev = n.parent_rev /\ p.rev_id = n.parent_rev_id

\* A write has added a grandchild: a node whose parent has a parent.
C4_Witness ==
    /\ res.op \in {"Put", "Delete"} /\ res.status = "ok"
    /\ \E n \in revs[res.db], p \in revs[res.db] :
          /\ n.id = p.id /\ n.parent_rev = p.rev /\ n.parent_rev_id = p.rev_id
          /\ p.parent_rev # NULL_REV

\* C6: a well-formed Put with new_edits=false for a revision whose body row
\* exists, with no storage failure, returns that revision's rev string and
\* leaves all three tables as they were, whatever body it carries.
C6_IdempotentReplay ==
    [][(/\ res'.op = "Put" /\ ~res'.opts.new_edits /\ WellFormed(res')
        /\ res'.fault = "none"
        /\ LET r == parseRev(res'.rev)
           IN  r.ok /\ HasKey(docs[res'.db], res'.id, r.rev, r.id))
        => /\ res'.status = "ok"
           /\ res'.out = res'.rev
           /\ revs' = revs /\ docs' = docs /\ atts' = atts]_vars

\* A new_edits=false Put has returned successfully for a revision whose
\* stored body row has another deleted flag than the body of the call.
C6_Witness ==
    /\ res.op = "Put" /\ ~res.opts.new_edits /\ res.status = "ok"
    /\ \E b \in docs[res.db] :
          /\ b.id = res.id /\ RevString(b.rev, b.rev_id) = res.rev
          /\ b.deleted # res.doc.deleted

\* C8: every step keeps the body rows it finds, with their seq, and gives each
\* body row it adds a seq greater than that of every row already there; and
\* Changes delivers its rows in strictly increasing seq order.
C8_ChangesMonotonic ==
    [][/\ \A d \in DBNames :
            /\ docs[d] \subseteq docs'[d]
            /\ \A n \in docs'[d] \ docs[d] : \A o \in docs[d] : n.seq > o.seq
       /\ res'.op = "Changes" =>
            \A i \in 1..(Len(res'.rows) - 1) : res'.rows[i].seq < res'.rows[i + 1].seq
      ]_vars

\* Changes has delivered as many rows as the database may hold.
C8_Witness ==
    /\ res.op = "Changes" /\ Len(res.rows) = MaxRows

\* C2: a well-formed Put with new_edits=true whose rev (the body's _rev or the
\* rev option) is not the string form of the document's winner ("" when the
\* document has no revision) fails with a conflict, so it succeeds only with
\* the rev of the winner.
C2_ConflictDetection ==
    [][(/\ res'.op = "Put" /\ res'.opts.new_edits /\ WellFormed(res')
        /\ res'.doc.revisions = NoRevisions
        /\ res'.rev # WinnerString(Winner(res'.db, res'.id)))
        => res'.status = "Conflict"]_vars

\* C3: a successful Put with new_edits=true adds one revision node and one
\* body row: the node is a child of the winner with the winner's rev plus one
\* (a root with rev 1 when there was no revision), the body row is the node's
\* and carries the _deleted flag of the call, and the node's rev string is
\* returned.
C3_InteractiveInsert ==
    [][(res'.op = "Put" /\ res'.opts.new_edits /\ res'.status = "ok")
        => LET d == res'.db
               w == Winner(d, res'.id)
               newNodes == revs'[d] \ revs[d]
               newBodies == docs'[d] \ docs[d]
           IN  /\ Cardinality(newNodes) = 1
               /\ Cardinality(newBodies) = 1
               /\ \A n \in newNodes : \A b \in newBodies :
                     /\ n.id = res'.id
                     /\ b.id = n.id /\ b.rev = n.rev /\ b.rev_id = n.rev_id
                     /\ b.deleted = res'.doc.deleted
                     /\ res'.out = RevString(n.rev, n.rev_id)
                     /\ IF w = {}
                        THEN /\ n.rev = 1
                             /\ n.parent_rev = NULL_REV
                             /\ n.parent_rev_id = NULL_ID
                        ELSE \A p \in w :
                             /\ n.rev = p.rev + 1
                             /\ n.parent_rev = p.rev
                             /\ n.parent_rev_id = p.rev_id]_vars

\* C5: Get without a rev option returns the highest leaf that is not deleted,
\* and NotFound exactly when the document has no such leaf.
C5_WinnerSelection ==
    (res.op = "Get" /\ res.opts.rev = "")
        => LET w == LiveWinner(res.db, res.id)
           IN  IF w = {} THEN res.status = "NotFound"
               ELSE res.status = "ok" /\ res.out = WinnerString(w)

\* C7: after a successful Put with new_edits=false and _revisions {start, ids}
\* on a document that had no revision, the document's nodes are exactly
\* (start - i, ids[i]), each the child of the next-older one and the oldest a
\* root, its only body row is that of the leaf (start, ids[0]), and the rev
\* string of the leaf is returned.
C7_RevisionsChain ==
    [][(/\ res'.op = "Put" /\ ~res'.opts.new_edits /\ res'.status = "ok"
        /\ res'.doc.revisions # NoRevisions
        /\ NodesOf(res'.db, res'.id) = {})
        => LET d == res'.db
               start == res'.doc.revisions.start
               ids == res'.doc.revisions.ids
               n == Len(ids)
               node(i) == IF i < n
                          THEN RevRow(res'.id, start - i + 1, ids[i],
                                      start - i, ids[i + 1])
                          ELSE RevRow(res'.id, start - i + 1, ids[i],
                                      NULL_REV, NULL_ID)
           IN  /\ {x \in revs'[d] : x.id = res'.id} = {node(i) : i \in 1..n}
               /\ \A b \in {x \in docs'[d] : x.id = res'.id} :
                     b.rev = start /\ b.rev_id = ids[1]
               /\ \E b \in docs'[d] :
                     b.id = res'.id /\ b.rev = start /\ b.rev_id = ids[1]
               /\ res'.out = RevString(start, ids[1])]_vars

\* C9: no row that AllDocs or Changes delivers has a local document's id.
C9_LocalInvisible ==
    res.op \in {"AllDocs", "Changes"}
        => \A i \in 1..Len(res.rows) : res.rows[i].id \notin LocalIDs

\* The documents AllDocs is to list: those that are not local and have a live
\* winner, each with the rev string of that winner.
AllDocsExpected(d) ==
    {[id |-> id, rev |-> WinnerString(LiveWinner(d, id))] :
        id \in {i \in DocIDs \ LocalIDs : LiveWinner(d, i) # {}}}

\* C10: AllDocs delivers exactly one row for each document that is not local
\* and has a live winner, with the winner's rev string, and no other row.
C10_AllDocsWinners ==
    res.op = "AllDocs"
        => /\ {res.rows[i] : i \in 1..Len(res.rows)} = AllDocsExpected(res.db)
           /\ Len(res.rows) = Cardinality(AllDocsExpected(res.db))

\* A sequence in reverse.
Reverse(s) == [i \in 1..Len(s) |-> s[Len(s) + 1 - i]]

\* id lies in the key range of options o: from startkey to endkey in
\* ascending order, from endkey to startkey with descending=true.
InRange(o, id) ==
    IF ~o.descending
    THEN /\ (o.startkey = "" \/ IDRank(o.startkey) <= IDRank(id))
         /\ \/ o.endkey = ""
            \/ IDRank(id) < IDRank(o.endkey)
            \/ o.inclusive_end /\ id = o.endkey
    ELSE /\ (o.startkey = "" \/ IDRank(id) <= IDRank(o.startkey))
         /\ \/ o.endkey = ""
            \/ IDRank(o.endkey) < IDRank(id)
            \/ o.inclusive_end /\ id = o.endkey

\* The rows of the database in ascending order that lie in the key range of
\* o, from lowest to highest, or from highest to lowest with descending=true.
RangeRows(d, o) ==
    LET keep(r) == InRange(o, r.id)
        kept == SelectSeq(AllDocsRows(d), keep)
    IN  IF o.descending THEN Reverse(kept) ELSE kept

\* C11: AllDocs without options delivers its rows in ascending order of the
\* document id, whatever the order of the writes, and AllDocs with
\* descending=true delivers the same rows in exactly the reverse order.
C11_AllDocsOrdering ==
    /\ (res.op = "AllDocs" /\ res.vopts = NoViewOpts)
          => \A i \in 1..Len(res.rows) : \A j \in 1..Len(res.rows) :
                i < j => IDRank(res.rows[i].id) <= IDRank(res.rows[j].id)
    /\ (res.op = "AllDocs" /\ res.vopts = [NoViewOpts EXCEPT !.descending = TRUE])
          => res.rows = Reverse(AllDocsRows(res.db))

\* C12: AllDocs with a key range and no skip or limit delivers exactly the
\* rows with startkey <= id <= endkey in ascending order (without the row of
\* endkey when inclusive_end=false), and with descending=true the rows with
\* endkey <= id <= startkey from highest to lowest.
C12_AllDocsKeyRange ==
    (res.op = "AllDocs" /\ res.vopts.skip = 0 /\ ~res.vopts.has_limit)
        => res.rows = RangeRows(res.db, res.vopts)

\* C13: AllDocs with skip=S and limit=L delivers rows S+1 .. S+L of the
\* ordered result (all rows from S+1 on when there is no limit): at most L
\* rows, and none when S is at least the number of rows.
C13_AllDocsSkipLimit ==
    (/\ res.op = "AllDocs" /\ ~res.vopts.descending
     /\ res.vopts.startkey = "" /\ res.vopts.endkey = "")
        => LET all == AllDocsRows(res.db)
               n == Len(all)
               S == res.vopts.skip
               last == IF res.vopts.has_limit /\ S + res.vopts.limit < n
                       THEN S + res.vopts.limit ELSE n
           IN  res.rows = IF S >= n THEN <<>> ELSE SubSeq(all, S + 1, last)

\* C14: Get with option rev=R returns the body row stored for (id, R), with
\* the rev R, whether or not that row is deleted and whether or not R is the
\* winner, and NotFound when no body row is stored for (id, R).
C14_GetByRev ==
    (res.op = "Get" /\ res.opts.rev # "")
        => LET stored == {b \in BodiesOf(res.db, res.id) :
                             RevString(b.rev, b.rev_id) = res.opts.rev}
           IN  IF stored = {} THEN res.status = "NotFound"
               ELSE /\ res.status = "ok"
                    /\ res.out = res.opts.rev
                    /\ \A b \in stored : res.body = b.doc

\* Get by rev has returned a deleted body row while the document has a live
\* winner, which is another revision.
C14_Witness ==
    /\ res.op = "Get" /\ res.opts.rev # "" /\ res.status = "ok"
    /\ \E b \in BodiesOf(res.db, res.id) :
          RevString(b.rev, b.rev_id) = res.out /\ b.deleted
    /\ LiveWinner(res.db, res.id) # {}
    /\ WinnerString(LiveWinner(res.db, res.id)) # res.out

\* The rev strings of the leaves of id other than the winner whose body row
\* has the given deleted flag.
OtherLeaves(d, id, deleted) ==
    {RevString(n.rev, n.rev_id) :
        n \in {l \in LeavesOf(d, id) \ Winner(d, id) : IsDeleted(d, l) = deleted}}

\* C15: a successful Get with conflicts=true, with or without a rev option,
\* returns for _conflicts exactly the leaves other than the winner that are
\* not deleted, and with deleted_conflicts=true for _deleted_conflicts exactly
\* the leaves other than the winner that are deleted; the winner is in
\* neither and no rev is in both.
C15_ConflictMetadata ==
    (res.op = "Get" /\ res.status = "ok")
        => /\ (res.gopts.conflicts \/ res.gopts.meta)
                 => res.conflicts = OtherLeaves(res.db, res.id, FALSE)
           /\ (res.gopts.deleted_conflicts \/ res.gopts.meta)
                 => res.deleted_conflicts = OtherLeaves(res.db, res.id, TRUE)
           /\ WinnerString(Winner(res.db, res.id))
                 \notin (res.conflicts \cup res.deleted_conflicts)
           /\ res.conflicts \cap res.deleted_conflicts = {}

\* The ancestors of node n: its parent and the ancestors of its parent.
RECURSIVE AncestorsOf(_, _)
AncestorsOf(d, n) ==
    LET ps == {p \in revs[d] :
                  p.id = n.id /\ p.rev = n.parent_rev /\ p.rev_id = n.parent_rev_id}
    IN  ps \cup UNION {AncestorsOf(d, p) : p \in ps}

\* The node of rev string s, its ancestors and its descendants.
LineOf(d, id, s) ==
    {n \in NodesOf(d, id) :
        \E r \in NodesOf(d, id) :
            /\ RevString(r.rev, r.rev_id) = s
            /\ (n = r \/ n \in AncestorsOf(d, r) \/ r \in AncestorsOf(d, n))}

\* C16: a successful Get with revs_info=true that returns revision R lists in
\* _revs_info exactly R, its ancestors and its descendants, each once, by
\* descending rev and then descending rev_id, a node with status "missing"
\* iff it has no body row, "deleted" iff its body row is deleted and
\* "available" otherwise.
C16_RevsInfo ==
    (res.op = "Get" /\ res.status = "ok" /\ (res.gopts.revs_info \/ res.gopts.meta))
        => LET line == LineOf(res.db, res.id, res.out)
               info == res.revs_info
           IN  /\ Len(info) = Cardinality(line)
               /\ {info[i].rev : i \in 1..Len(info)}
                     = {RevString(n.rev, n.rev_id) : n \in line}
               /\ \A i \in 1..Len(info) : \A j \in 1..Len(info) :
                     i < j => LET a == parseRev(info[i].rev)
                                  b == parseRev(info[j].rev)
                              IN  \/ a.rev > b.rev
                                  \/ /\ a.rev = b.rev
                                     /\ RevIDRank(a.id) > RevIDRank(b.id)
               /\ \A i \in 1..Len(info) : \A n \in line :
                     RevString(n.rev, n.rev_id) = info[i].rev
                       => LET hasBody == \E b \in docs[res.db] :
                                 b.id = n.id /\ b.rev = n.rev /\ b.rev_id = n.rev_id
                          IN  /\ info[i].status = "missing" <=> ~hasBody
                              /\ info[i].status = "deleted" <=> IsDeleted(res.db, n)
                              /\ info[i].status = "available"
                                    <=> (hasBody /\ ~IsDeleted(res.db, n))

\* Get by rev has listed a revision with its descendant, one of the two
\* deleted, and has left out a node of another branch of the document.
C16_Witness ==
    /\ res.op = "Get" /\ res.status = "ok" /\ res.gopts.revs_info
    /\ Len(res.revs_info) >= 2
    /\ res.revs_info[1].rev # res.out
    /\ \E i \in 1..Len(res.revs_info) : res.revs_info[i].status = "deleted"
    /\ Cardinality(NodesOf(res.db, res.id)) > Len(res.revs_info)

\* The body {"_deleted": true} of the Put that Delete is compared with.
DeletedBody == MkDoc("", "", NoRevisions, [content |-> "", deleted |-> TRUE])

\* The outcome of Put(id, {_deleted: true}, rev=R) with new_edits=true in the
\* state a Delete(id, rev=R) is called in.
PutForDelete(call) ==
    PutOutcome(call.db, call.id, DeletedBody,
               [rev |-> call.rev, new_edits |-> TRUE], call.fault)

\* Delete has left the status, the rev string and the tables of outcome p.
SameOutcome(p) ==
    /\ res'.status = p.status
    /\ res'.out = p.out
    /\ revs'[res'.db] = p.tables.revs
    /\ docs'[res'.db] = p.tables.docs
    /\ atts'[res'.db] = p.tables.atts

\* C17 as stated: in every state Delete(id, rev=R) has the outcome of
\* Put(id, {_deleted: true}, rev=R) with new_edits=true: the same error kind,
\* also for a document that does not exist, or the same rev string and tables.
C17_DeleteEquivalence ==
    [][res'.op = "Delete" => SameOutcome(PutForDelete(res'))]_vars

\* C17: Delete(id, rev=R) on a document that has a body row has the outcome
\* of Put(id, {_deleted: true}, rev=R) with new_edits=true: the same error
\* kind, or the same rev string and the same tables. On a document without a
\* body row Delete fails with NotFound and changes nothing.
C17_DeleteEquivalenceOfStored ==
    [][res'.op = "Delete"
        => IF BodiesOf(res'.db, res'.id) # {}
           THEN SameOutcome(PutForDelete(res'))
           ELSE /\ res'.status = "NotFound"
                /\ revs' = revs /\ docs' = docs /\ atts' = atts]_vars

\* A Delete has succeeded on a document with several revisions.
C17_Witness ==
    /\ res.op = "Delete" /\ res.status = "ok"
    /\ Cardinality(BodiesOf(res.db, res.id)) >= 3
    /\ \E b \in BodiesOf(res.db, res.id) :
          RevString(b.rev, b.rev_id) = res.out /\ b.deleted

\* The tombstone of a deleted document: its leaf, when the document has one
\* leaf and the body row of that leaf is deleted.
Tombstone(d, id) ==
    IF Cardinality(LeavesOf(d, id)) = 1
    THEN {n \in LeavesOf(d, id) : IsDeleted(d, n)}
    ELSE {}

\* Get(id) without a rev option and without metadata options.
PlainGet(d, id) ==
    GetOutcome(d, id, [rev |-> "", conflicts |-> FALSE, deleted_conflicts |-> FALSE,
                       revs_info |-> FALSE, meta |-> FALSE])

\* C18: after a successful Delete of a document with a single leaf Get(id)
\* without rev returns NotFound; on a document whose single leaf is a
\* tombstone a Put with new_edits=true and no rev fails with a conflict, and
\* one whose rev is the tombstone succeeds with the rev number of the
\* tombstone plus one, after which Get(id) returns the body of that Put.
C18_ExistenceStateMachine ==
    [][\A d \in DBNames : \A id \in DocIDs :
       LET put == /\ res'.op = "Put" /\ res'.db = d /\ res'.id = id
                  /\ res'.opts.new_edits /\ WellFormed(res')
                  /\ res'.fault = "none" /\ Tombstone(d, id) # {}
       IN  /\ (/\ res'.op = "Delete" /\ res'.db = d /\ res'.id = id
               /\ res'.status = "ok" /\ Cardinality(LeavesOf(d, id)) = 1)
                 => PlainGet(d, id)'.status = "NotFound"
           /\ (put /\ res'.rev = "") => res'.status = "Conflict"
           /\ (put /\ res'.rev = WinnerString(Tombstone(d, id)))
                 => /\ res'.status = "ok"
                    /\ \A t \in Tombstone(d, id) :
                          parseRev(res'.out).rev = t.rev + 1
                    /\ ~res'.doc.deleted
                          => /\ PlainGet(d, id)'.status = "ok"
                             /\ PlainGet(d, id)'.rev = res'.out
                             /\ PlainGet(d, id)'.body = res'.doc.content]_vars

\* A document that was deleted by Delete has been written again with the rev
\* of its tombstone: its single leaf is live and the child of a deleted node
\* whose body Delete wrote.
C18_Witness ==
    /\ res.op = "Put" /\ res.status = "ok" /\ res.opts.new_edits
    /\ Cardinality(LeavesOf(res.db, res.id)) = 1
    /\ \E n \in LeavesOf(res.db, res.id) :
          /\ RevString(n.rev, n.rev_id) = res.out
          /\ ~IsDeleted(res.db, n)
          /\ \E t \in NodesOf(res.db, res.id) :
                /\ t.rev = n.parent_rev /\ t.rev_id = n.parent_rev_id
                /\ IsDeleted(res.db, t)
                /\ t.rev_id = MD5Body(DeletedBody.content, TRUE)

\* C19: when a document has two leaves, both not deleted, Delete with the rev
\* of the leaf that is not the winner succeeds and adds a deleted child of
\* that leaf, and the other leaf is still the winner and the rev AllDocs
\* reports for the document.
C19_DeleteLosingLeaf ==
    [][\A d \in DBNames : \A id \in DocIDs :
       \A L \in LeavesOf(d, id) \ LiveWinner(d, id) :
        (/\ res'.op = "Delete" /\ res'.db = d /\ res'.id = id
         /\ res'.fault = "none"
         /\ Cardinality(LeavesOf(d, id)) = 2
         /\ \A l \in LeavesOf(d, id) : ~IsDeleted(d, l)
         /\ res'.rev = RevString(L.rev, L.rev_id))
          => /\ res'.status = "ok"
             /\ \E n \in revs'[d] \ revs[d] :
                   /\ n.id = id /\ n.parent_rev = L.rev /\ n.parent_rev_id = L.rev_id
                   /\ RevString(n.rev, n.rev_id) = res'.out
                   /\ \E b \in docs'[d] \ docs[d] :
                         /\ b.id = id /\ b.rev = n.rev /\ b.rev_id = n.rev_id
                         /\ b.deleted
             /\ LiveWinner(d, id)' = LiveWinner(d, id)
             /\ \E i \in 1..Len(AllDocsRows(d)') :
                   AllDocsRows(d)'[i] =
                       [id |-> id, rev |-> WinnerString(LiveWinner(d, id))]]_vars

\* The claimed chain of a _revisions value matches the stored history of
\* document id: its leaf (start, ids[0]) is the winner, and every stored
\* ancestor of the winner at the rev of a listed older id has that id.
ChainMatches(d, id, revisions) ==
    \E w \in Winner(d, id) :
        /\ w.rev = revisions.start /\ w.rev_id = Head(revisions.ids)
        /\ \A i \in 2..Len(revisions.ids) : \A a \in AncestorsOf(d, w) :
              a.rev = revisions.start - i + 1 => a.rev_id = revisions.ids[i]

\* C20: a well-formed Put with new_edits=true whose body has _revisions fails
\* with a conflict unless the claimed chain matches the winner and its
\* ancestors (so also when the document has no revision, when the leaf of
\* the chain is not the winner, and when a listed ancestor differs from the
\* stored one); when it succeeds the new node is a child of the winner with
\* rev = start + 1.
C20_InteractiveRevisions ==
    [][\A d \in DBNames : \A id \in DocIDs :
        (/\ res'.op = "Put" /\ res'.db = d /\ res'.id = id
         /\ res'.opts.new_edits /\ WellFormed(res') /\ res'.fault = "none"
         /\ res'.doc.revisions # NoRevisions)
          => /\ ~ChainMatches(d, id, res'.doc.revisions) => res'.status = "Conflict"
             /\ res'.status = "ok"
                   => \E n \in revs'[d] \ revs[d] : \E w \in Winner(d, id) :
                         /\ n.id = id /\ n.rev = res'.doc.revisions.start + 1
                         /\ n.parent_rev = w.rev /\ n.parent_rev_id = w.rev_id]_vars

\* C21 as stated: a Put with new_edits=false whose body has neither _rev nor
\* _revisions fails with BadRequest and writes nothing, with or without a rev
\* option.
C21_ReplicationNeedsBodyRev ==
    [][(/\ res'.op = "Put" /\ ~res'.opts.new_edits /\ WellFormed(res')
        /\ res'.doc.rev = "" /\ res'.doc.revisions = NoRevisions)
        => /\ res'.status = "BadRequest"
           /\ revs' = revs /\ docs' = docs /\ atts' = atts]_vars

\* C21: a Put with new_edits=false whose body has neither _rev nor
\* _revisions fails with BadRequest and writes nothing when it has no rev
\* option either; with a rev option it writes the revision of the option and
\* returns its rev string (when the storage does not fail).
C21_ReplicationNeedsRev ==
    [][(/\ res'.op = "Put" /\ ~res'.opts.new_edits /\ WellFormed(res')
        /\ res'.doc.rev = "" /\ res'.doc.revisions = NoRevisions)
        => IF res'.opts.rev = ""
           THEN /\ res'.status = "BadRequest"
                /\ revs' = revs /\ docs' = docs /\ atts' = atts
           ELSE res'.fault = "none"
                  => /\ res'.status = "ok"
                     /\ res'.out = res'.opts.rev
                     /\ \E b \in docs'[res'.db] :
                           /\ b.id = res'.id
                           /\ RevString(b.rev, b.rev_id) = res'.opts.rev]_vars

\* A Put with new_edits=false and no rev at all has failed with BadRequest in
\* a database that holds the document.
C21_Witness ==
    /\ res.op = "Put" /\ ~res.opts.new_edits /\ res.status = "BadRequest"
    /\ res.fault = "none" /\ res.doc.rev = "" /\ res.doc.revisions = NoRevisions /\ res.opts.rev = ""
    /\ BodiesOf(res.db, res.id) # {}

\* The call of res' with its rev moved from the option into the body.
RevInBody(call) ==
    PutOutcome(call.db, call.id, [call.doc EXCEPT !.rev = call.opts.rev],
               [call.opts EXCEPT !.rev = ""], call.fault)

\* C22: in both new_edits modes a Put whose body _rev and rev option are both
\* given and differ fails with BadRequest and writes nothing, whatever the
\* current rev of the document is; a Put that gives its rev only as an option
\* has the status, the rev string and the tables of the Put that gives the
\* same rev only in the body.
C22_RevAgreement ==
    [][(res'.op = "Put" /\ res'.doc.revisions = NoRevisions
        /\ (res'.doc.id = "" \/ res'.doc.id = res'.id))
        => /\ (res'.doc.rev # "" /\ res'.opts.rev # ""
                /\ res'.doc.rev # res'.opts.rev)
                 => /\ res'.status = "BadRequest"
                    /\ revs' = revs /\ docs' = docs /\ atts' = atts
           /\ (res'.doc.rev = "" /\ res'.opts.rev # "")
                 => /\ res'.rev = res'.opts.rev
                    /\ res'.status = RevInBody(res').status
                    /\ res'.out = RevInBody(res').out
                    /\ revs'[res'.db] = RevInBody(res').tables.revs
                    /\ docs'[res'.db] = RevInBody(res').tables.docs
           /\ (res'.doc.rev # "" /\ res'.opts.rev = "")
                 => res'.rev = res'.doc.rev]_vars

\* A Put with new_edits=true has failed with BadRequest for a rev option that
\* is the current rev of the document and a body _rev that is not.
C22_Witness ==
    /\ res.op = "Put" /\ res.opts.new_edits /\ res.status = "BadRequest"
    /\ res.doc.rev # "" /\ res.opts.rev # "" /\ res.doc.rev # res.opts.rev
    /\ \E t \in TopDoc(docs[res.db], res.id) :
          RevString(t.rev, t.rev_id) = res.opts.rev

\* The leaf (start, ids[0]) of a _revisions value, as a rev string.
LeafOf(revisions) == RevString(revisions.start, Head(revisions.ids))

\* C23: a Put with new_edits=false whose body has both _revisions and _rev
\* fails with BadRequest and writes nothing when it has a rev option that is
\* not the leaf of _revisions; otherwise (no storage failure) it succeeds,
\* returns the leaf of _revisions, leaves a body row for the leaf, and adds
\* nothing for the revision the body's _rev names.
C23_RevisionsOverrideRev ==
    [][(/\ res'.op = "Put" /\ ~res'.opts.new_edits
        /\ res'.doc.revisions # NoRevisions /\ res'.doc.rev # ""
        /\ (res'.doc.id = "" \/ res'.doc.id = res'.id))
        => LET d == res'.db
               leaf == LeafOf(res'.doc.revisions)
           IN  IF res'.opts.rev # "" /\ res'.opts.rev # leaf
               THEN /\ res'.status = "BadRequest"
                    /\ revs' = revs /\ docs' = docs /\ atts' = atts
               ELSE res'.fault = "none"
                      => /\ res'.status = "ok"
                         /\ res'.out = leaf
                         /\ \E b \in docs'[d] :
                               b.id = res'.id /\ RevString(b.rev, b.rev_id) = leaf
                         /\ \A n \in revs'[d] \ revs[d] :
                               RevString(n.rev, n.rev_id) # res'.doc.rev
                         /\ \A b \in docs'[d] \ docs[d] :
                               RevString(b.rev, b.rev_id) # res'.doc.rev]_vars

\* A Put with new_edits=false has written the leaf of its _revisions while
\* its body carried another _rev, of which the document has no revision.
C23_Witness ==
    /\ res.op = "Put" /\ ~res.opts.new_edits /\ res.status = "ok"
    /\ res.doc.revisions # NoRevisions /\ res.doc.rev # ""
    /\ res.doc.rev # LeafOf(res.doc.revisions)
    /\ res.out = LeafOf(res.doc.revisions)
    /\ \A n \in NodesOf(res.db, res.id) : RevString(n.rev, n.rev_id) # res.doc.rev

\* The pairs (start - i + 1, ids[i]) a _revisions value names, leaf first.
ChainPair(revisions, i) ==
    [rev |-> revisions.start - i + 1, rev_id |-> revisions.ids[i]]

\* C24: a well-formed Put with new_edits=false and _revisions, on a document
\* that already has a node the chain names, succeeds (no storage failure),
\* returns the leaf of the chain, leaves one node per pair, and afterwards
\* every pair of the chain but the oldest is a node whose parent is the
\* next-older pair.
C24_OverlappingChain ==
    [][(/\ res'.op = "Put" /\ ~res'.opts.new_edits /\ res'.fault = "none"
        /\ res'.doc.revisions # NoRevisions /\ WellFormed(res')
        /\ \E i \in 1..Len(res'.doc.revisions.ids) :
              HasKey(revs[res'.db], res'.id,
                     ChainPair(res'.doc.revisions, i).rev,
                     ChainPair(res'.doc.revisions, i).rev_id))
        => LET d == res'.db
               c == res'.doc.revisions
           IN  /\ res'.status = "ok"
               /\ res'.out = LeafOf(c)
               /\ \A i \in 1..(Len(c.ids) - 1) :
                     /\ RevRow(res'.id, ChainPair(c, i).rev, ChainPair(c, i).rev_id,
                               ChainPair(c, i + 1).rev, ChainPair(c, i + 1).rev_id)
                          \in revs'[d]
                     /\ Cardinality({n \in revs'[d] :
                           /\ n.id = res'.id /\ n.rev = ChainPair(c, i).rev
                           /\ n.rev_id = ChainPair(c, i).rev_id}) = 1]_vars

C26_Referential ==
    \A d \in DBNames :
        /\ \A b \in docs[d] : \E n \in revs[d] :
              n.id = b.id /\ n.rev = b.rev /\ n.rev_id = b.rev_id
        /\ \A a \in atts[d] : \E n \in revs[d] :
              n.id = a.id /\ n.rev = a.rev /\ n.rev_id = a.rev_id
        /\ \A b1, b2 \in docs[d] :
              (b1.id = b2.id /\ b1.rev = b2.rev /\ b1.rev_id = b2.rev_id) => b1 = b2
        /\ \A a1, a2 \in atts[d] :
              (/\ a1.id = a2.id /\ a1.rev = a2.rev /\ a1.rev_id = a2.rev_id
               /\ a1.filename = a2.filename) => a1 = a2

\* A Put with new_edits=false has found the body row of its rev stored, in a
\* database that holds other body rows too.
C26_Witness ==
    /\ res.op = "Put" /\ ~res.opts.new_edits /\ res.status = "ok"
    /\ \E b \in BodiesOf(res.db, res.id) :
          /\ RevString(b.rev, b.rev_id) = res.out
          /\ \E o \in docs[res.db] : o.seq > b.seq

\* C27: after a successful Put with new_edits=false whose rev is not the
\* winner of the document afterwards (the highest leaf that is not deleted),
\* Get(id) without a rev option returns what it returned before the Put.
C27_ReplicationKeepsWinner ==
    [][\A d \in DBNames : \A id \in DocIDs :
        (/\ res'.op = "Put" /\ res'.db = d /\ res'.id = id
         /\ ~res'.opts.new_edits /\ res'.status = "ok"
         /\ WinnerString(LiveWinner(d, id))' # res'.out)
        => PlainGet(d, id)' = PlainGet(d, id)]_vars

\* The summary string of a feed of n rows whose seqs run from lo to hi.
SummaryString(n, lo, hi) == ToString(n) \o "." \o ToString(lo) \o "." \o ToString(hi)

\* C28: the ETag of a feed is the MD5 of "<count>.<min_seq>.<max_seq>" of the
\* rows its cursor delivers, whatever is written while the feed is read: the
\* rows delivered so far are no more than count, they begin at min_seq and
\* do not pass max_seq, and once Next has reported the end of the feed they
\* are count rows that end at max_seq (0 for both seqs of a feed of no rows).
C28_ETagOfDeliveredRows ==
    feed.state # "none"
        => \E n \in 0..(MaxRows + 1), lo \in 0..(MaxRows + 1), hi \in 0..(MaxRows + 1) :
              LET got == feed.delivered
                  m == Len(got)
              IN  /\ feed.etag = MD5Hex(SummaryString(n, lo, hi))
                  /\ m <= n
                  /\ m > 0 => (lo = got[1].seq /\ got[m].seq <= hi)
                  /\ n = 0 => (lo = 0 /\ hi = 0)
                  /\ feed.eof => (m = n /\ (m > 0 => got[m].seq = hi))

\* A feed of two rows or more has been read to its end, and a document was
\* created after the feed was opened.
C28_Witness ==
    /\ feed.eof /\ Len(feed.delivered) >= 2
    /\ \E b \in docs[ChangesTable(feed.db)] :
          b.seq > feed.delivered[Len(feed.delivered)].seq

\* C29: LastSeq returns "" unless Next has reported the end of the feed, also
\* after rows were delivered and after the feed was closed before its end;
\* once Next has reported the end it returns the seq of the last row
\* delivered.
C29_LastSeqAfterDrain ==
    res.op = "LastSeq"
        => LET m == Len(feed.delivered)
           IN  IF feed.eof
               THEN res.out = IF m = 0 THEN "" ELSE ToString(feed.delivered[m].seq)
               ELSE res.out = ""

\* C30: the document a Get returns while the document is written has the rev,
\* the body and the metadata of one committed state, that in which its first
\* query ran: _conflicts, _deleted_conflicts and _revs_info are those of that
\* state when their option or meta asks for them, so that meta=true gives
\* what the three options give one by one.
C30_ReadSnapshot ==
    [][(rtx.pc # "none" /\ res'.op = "Get" /\ res'.status = "ok")
        => LET s == rtx.snapshot
               sel == GetSelect(s, rtx.id, rtx.opts)
               g == res'.gopts
           IN  /\ sel.status = "ok"
               /\ res'.out = RevString(sel.r.rev, sel.r.id)
               /\ res'.body = sel.body
               /\ (g.conflicts \/ g.meta)
                     => res'.conflicts = conflicts(s, rtx.id, sel.r, FALSE)
               /\ (g.deleted_conflicts \/ g.meta)
                     => res'.deleted_conflicts = conflicts(s, rtx.id, sel.r, TRUE)
               /\ (g.revs_info \/ g.meta)
                     => res'.revs_info = RevsInfo(s, rtx.id, sel.r)]_vars

\* A Get with meta has returned conflicts of a document that got another leaf
\* after the first query of the Get.
C30_Witness ==
    /\ res.op = "Get" /\ res.status = "ok" /\ res.gopts.meta
    /\ res.conflicts # {}
    /\ rtx = NoRead
    /\ res.conflicts # conflicts(Tables(res.db), res.id, parseRev(res.out), FALSE)

\* C31: CreateDB fails with BadRequest for an invalid name and with
\* PreconditionFailed when one of the three tables of the name exists, and
\* succeeds otherwise, whatever other databases the client has; a CreateDB
\* that fails leaves the tables and the indexes as they were, and one that
\* succeeds leaves the three tables of the name.
C31_CreateDB ==
    [][res'.op = "CreateDB"
        => LET name == res'.db
           IN  /\ res'.status =
                    IF ~validDBName(name) THEN "BadRequest"
                    ELSE IF \E t \in DBTables(name) : HasTable(schema, t)
                         THEN "PreconditionFailed"
                    ELSE "ok"
               /\ res'.status # "ok" => schema' = schema
               /\ res'.status = "ok"
                     => \A t \in DBTables(name) : HasTable(schema, t)']_vars

\* C32: a DestroyDB that succeeds on a database whose three tables exist
\* leaves none of the three, so that DBExists of the name is false, another
\* DestroyDB of it would fail with NotFound and a CreateDB of it would
\* succeed, and leaves no revision of the database.
C32_DestroyDB ==
    [][\A name \in DBNames :
        (/\ res'.op = "DestroyDB" /\ res'.db = name /\ res'.status = "ok"
         /\ \A t \in DBTables(name) : HasTable(schema, t))
        => /\ \A t \in DBTables(name) : ~HasTable(schema, t)'
           /\ ~DBExistsResult(schema, name)'
           /\ DestroyDBOutcome(schema, name)'.status = "NotFound"
           /\ CreateDBOutcome(schema, name)'.status = "ok"
           /\ revs'[name] = {} /\ docs'[name] = {} /\ atts'[name] = {}]_vars

\* C33: AllDBs returns, each once, exactly the names a CreateDB has succeeded
\* for and no DestroyDB since, and DBExists is true for exactly those names.
C33_AllDBs ==
    /\ res.op = "AllDBs"
         => /\ {res.rows[i] : i \in 1..Len(res.rows)} = schema.created
            /\ Len(res.rows) = Cardinality(schema.created)
    /\ res.op = "DBExists"
         => (res.out = "true" <=> res.db \in schema.created)

\* The rev_id the tests expect for the body {"foo": "bar"}, deleted or not.
ExpectedRevID(deleted) == IF deleted THEN "6872" ELSE "9bb5"

C35_AttachmentsFollowRevision ==
    [][(res'.op = "Put" /\ res'.doc.attachments # {})
        => LET d == res'.db
               r == parseRev(res'.out)
               rowsOf(a) == {x \in atts'[d] :
                               /\ x.id = res'.id /\ x.rev = r.rev
                               /\ x.rev_id = r.id /\ x.filename = a.filename}
           IN  /\ (\E a \in res'.doc.attachments : a.kind = "none")
                     => /\ res'.status = "BadRequest"
                        /\ revs' = revs /\ docs' = docs /\ atts' = atts
               /\ res'.status = "ok"
                     => \A a \in res'.doc.attachments :
                           /\ a.kind = "data" => Cardinality(rowsOf(a)) = 1
                           /\ a.kind = "stub"
                                 => \A p \in atts[d] :
                                       (p.id = res'.id /\ p.filename = a.filename
                                        /\ RevString(p.rev, p.rev_id) = res'.rev)
                                       => Cardinality(rowsOf(a)) = 1]_vars

\* What the reads of database d return: Get of each document, AllDocs, and
\* the summary and the rows of Changes.
ReadsOf(d) ==
    [get |-> [id \in ViewIDs |-> PlainGet(d, id)],
     all_docs |-> AllDocsRows(d),
     etag |-> ChangesSummary(d),
     changes |-> ChangesRows(d)]

C37_NoLostUpdate ==
    [][/\ (res'.op \in {"Put", "Delete"} /\ res'.status = "ok")
            => LET top == TopDoc(docs[res'.db], res'.id)
               IN  res'.rev = IF top = {} THEN ""
                              ELSE LET x == CHOOSE x \in top : TRUE
                                   IN  RevString(x.rev, x.rev_id)
       /\ \A d \in SpecDBs : \A id \in DocIDs :
            /\ \A n \in NodesOf(d, id)' :
                  Cardinality({c \in NodesOf(d, id)' :
                      c.parent_rev = n.rev /\ c.parent_rev_id = n.rev_id}) <= 1
            /\ Cardinality(LeavesOf(d, id)') <= 1]_vars

\* A write has succeeded while another that presented the same rev had read
\* and not yet written.
C37_Witness ==
    /\ res.op \in {"Put", "Delete"} /\ res.status = "ok"
    /\ \E w \in Writers :
          /\ wtx[w].pc = "read" /\ wtx[w].db = res.db /\ wtx[w].id = res.id
          /\ wtx[w].rev = res.rev

C39_LeavesHaveBodies ==
    \A d \in DBNames : \A id \in DocIDs :
        /\ \A n \in LeavesOf(d, id) : \E b \in BodiesOf(d, id) :
              b.rev = n.rev /\ b.rev_id = n.rev_id
        /\ \A n \in NodesOf(d, id) :
              (~\E b \in BodiesOf(d, id) : b.rev = n.rev /\ b.rev_id = n.rev_id)
                  => \E m \in NodesOf(d, id) :
                        /\ n \in AncestorsOf(d, m)
                        /\ \E b \in BodiesOf(d, id) :
                              b.rev = m.rev /\ b.rev_id = m.rev_id
        /\ \A t \in TopDoc(docs[d], id) : \E n \in LeavesOf(d, id) :
              n.rev = t.rev /\ n.rev_id = t.rev_id

\* A write with new_edits=true has added a child to the highest body row of
\* a document that also has a revision stored with new_edits=false.
C39_Witness ==
    /\ res.op \in {"Put", "Delete"} /\ res.opts.new_edits /\ res.status = "ok"
    /\ \E n \in LeavesOf(res.db, res.id) :
          /\ RevString(n.rev, n.rev_id) = res.out
          /\ n.parent_rev # NULL_REV
          /\ \E o \in NodesOf(res.db, res.id) :
                o # n /\ o.parent_rev = NULL_REV /\ o.rev_id \in {parseRev(x).id : x \in ExternalRevs}

====
